---- MODULE Spec2Model ----
(***************************************************************************)
(* FedoraForge (src/src/main.rs): the declarative reconciliation engine.   *)
(*                                                                         *)
(* main() reconciles one domain after the other; every domain keeps its    *)
(* own declared configuration, its own live resources and its own state    *)
(* file.  The variable `domain`, chosen in Init, is the domain whose       *)
(* reconciliation a behaviour follows; the other domains stay as they      *)
(* were at construction.  Two domains follow a function on its own:        *)
(* "classify" (determine_container_action) and "prompt" (the read loop of  *)
(* ask_user_confirmation); "validation" is users and groups again, on      *)
(* configurations and account names the validators reject; "main" is the   *)
(* sequence of the domains in main(), each read through the steps at which *)
(* it can fail.                                                            *)
(* "services" follows the enabled and started state of the units of a      *)
(* scope, run after run; "flags" follows the loop of                       *)
(* parse_raw_flags_to_quadlet; "commands" follows the custom commands, run *)
(* after run.                                                              *)
(*                                                                         *)
(* A run of a domain is one action: it reads the declared configuration,   *)
(* the live system and the persisted state, and leaves the new live        *)
(* system, the new persisted state and the run-local values (the plan,     *)
(* the external calls issued, the prompts resolved, the outcome).  The     *)
(* run-local values die with the process (ProcessExit).                    *)
(*                                                                         *)
(* Strings are TLA+ strings; Sha256 is modelled as injective on its input, *)
(* so a fingerprint is the byte string that was fed to the hasher.         *)
(* Timestamps (last_updated, installed_at, managed_at) are left out of the *)
(* records: no decision of the engine reads them.                          *)
(***************************************************************************)
EXTENDS Integers, Sequences, FiniteSets, TLC

VARIABLES
    domain,                 \* the domain this behaviour reconciles
    phase,                  \* "idle": no process; "ran": a run has just ended
    args,                   \* Args of the last run (yes, no, force_recreate, no_recreate)
    plan,                   \* run-local: <<key, action>> in classification order
    calls,                  \* run-local: external mutating calls, in issue order
    asked,                  \* run-local: confirmations resolved, in order
    outcome,                \* run-local: "none" | "ok" | "cancelled" | "err"
    pre,                    \* run-local: the live system and state file the run started from
    settled,                \* keys applied by the last completed run, config untouched since
    fin,                    \* the inputs of a function applied on its own
    fout,                   \* its result (None before it is applied)
    podman_containers,      \* config.podman.containers (declared, in file order)
    podman_ps,              \* live containers: name -> "absent" | "plain" | "managed"
    container_state_file,   \* container_state.json: name -> ContainerInfo
    package_manager,        \* the package list followed: "dnf" | "flatpak"
    packages_toml,          \* config/<manager>-packages.toml: the declared packages
    live_packages,          \* the packages the manager reports as installed
    users_groups_toml,      \* config/users-groups.toml: [users, groups], each an Option
    etc_passwd,             \* /etc/passwd: name -> [uid, shell]
    etc_group,              \* /etc/group: name -> [gid]
    users_groups_state_file,    \* users_groups_state.json: [managed_users, managed_groups]
    service_scope,          \* the scope followed: "System" | "User"
    declared_services,      \* custom_services of the scope's services file (declared)
    systemd_units,          \* installed units of the scope: name -> [definition, enabled, active]
    custom_services_state_file  \* custom_services.json: [system_services, user_services]

hvars == <<phase, args, plan, calls, asked, outcome, pre>>
cvars == <<podman_containers, podman_ps, container_state_file>>
pvars == <<package_manager, packages_toml, live_packages>>
uvars == <<users_groups_toml, etc_passwd, etc_group, users_groups_state_file>>
svars == <<service_scope, declared_services, systemd_units, custom_services_state_file>>
fvars == <<fin, fout>>
vars == <<domain, hvars, settled, fvars, cvars, pvars, uvars, svars>>

---------------------------------------------------------------------------
(* Option<T>                                                               *)

None == <<>>
Some(v) == <<v>>
unwrap_or(o, d) == IF o = None THEN d ELSE o[1]

(* HashMap insert / remove on a function whose domain is its key set.       *)
EmptyMap == [k \in {} |-> None]
Insert(m, k, v) == [x \in (DOMAIN m) \cup {k} |-> IF x = k THEN v ELSE m[x]]
Remove(m, k) == [x \in (DOMAIN m) \ {k} |-> m[x]]

---------------------------------------------------------------------------
(* Command line                                                            *)

NoArgs == [yes |-> FALSE, no |-> FALSE, force_recreate |-> FALSE, no_recreate |-> FALSE]

\* What Args::parse() can return.
ParsedArgs == [yes : BOOLEAN, no : BOOLEAN, force_recreate : BOOLEAN, no_recreate : BOOLEAN]

\* A variant that lets every flag combination through.
flag_conflict_never(a) == FALSE

\* main(): if args.yes && args.no { bail!("Cannot specify both --yes and --no flags") }
flag_conflict(a) == a.yes /\ a.no

\* main() bails out on --yes together with --no before anything else runs:
\* the sections of a run see the other flag combinations.
Args == {a \in ParsedArgs : ~flag_conflict(a)}

\* yes -> true, no -> false, otherwise the answer read from the operator.
ask_user_confirmation(yes, no, input) ==
    IF yes THEN TRUE ELSE IF no THEN FALSE ELSE input

\* One resolved confirmation, as echoed on stdout: the keys it is about, the
\* answer, and whether the answer was read from standard input (blocked).
Asked(prompt, keys, yes, no, input) ==
    [prompt |-> prompt, keys |-> keys,
     answer |-> ask_user_confirmation(yes, no, input),
     blocked |-> ~yes /\ ~no]

---------------------------------------------------------------------------
(* Containers: declared descriptors                                        *)

ContainerNames == {"web", "db"}
\* the order in which `podman ps` lists containers
ContainerOrder == <<"web", "db">>
Images == {"alpine", "alpine-it"}
RawFlags == {None, Some(""), Some("-it")}
Autostarts == {None, Some(FALSE), Some(TRUE)}

WebDescs ==
    [name : {"web"}, image : Images, raw_flags : RawFlags,
     start_after_creation : BOOLEAN, autostart : Autostarts]

\* The declared containers of the runs: "web" varies in image, in
\* start_after_creation and in autostart, "db" is one fixed descriptor.
RunWebDescs ==
    [name : {"web"}, image : Images, raw_flags : {None},
     start_after_creation : BOOLEAN, autostart : {None, Some(TRUE)}]
RunDbDescs ==
    [name : {"db"}, image : {"alpine"}, raw_flags : {None},
     start_after_creation : {FALSE}, autostart : {None}]

\* Declared container lists: resource keys are unique within the domain.
PodmanConfigs ==
    {<<>>} \cup {<<w>> : w \in RunWebDescs} \cup {<<d>> : d \in RunDbDescs}
           \cup {<<w, d>> : w \in RunWebDescs, d \in RunDbDescs}

DeclaredNames(containers) == {containers[i].name : i \in 1..Len(containers)}

---------------------------------------------------------------------------
(* Containers: fingerprint and classification                              *)

\* Sha256 over name, image, raw_flags (absent: ""), one byte for
\* start_after_creation and one byte for autostart (absent: false).
generate_container_config_hash_without_autostart(container) ==
    container.name \o container.image \o unwrap_or(container.raw_flags, "")
        \o (IF container.start_after_creation THEN "1" ELSE "0")

generate_container_config_hash(container) ==
    container.name \o container.image \o unwrap_or(container.raw_flags, "")
        \o (IF container.start_after_creation THEN "1" ELSE "0")
        \o (IF unwrap_or(container.autostart, FALSE) THEN "1" ELSE "0")

\* `podman ps -a --format {{.Names}}`: the names that exist.
get_existing_containers(ps) == {n \in DOMAIN ps : ps[n] # "absent"}

\* `podman ps -a --filter label=managed-by=fedoraforge`, in listing order.
managed_containers(ps) == SelectSeq(ContainerOrder, LAMBDA n : ps[n] = "managed")

\* Variant: an existing container without a record is trusted as it is.
determine_container_action_trusting(container, state, existing_containers, a) ==
    LET current_hash == generate_container_config_hash(container)
        exists == container.name \in existing_containers
    IN  IF a.force_recreate THEN (IF exists THEN "Recreate" ELSE "Create")
        ELSE IF a.no_recreate THEN "Skip"
        ELSE IF ~exists THEN "Create"
        ELSE IF container.name \in DOMAIN state
                /\ state[container.name].config_hash # current_hash
             THEN "Update"
             ELSE "Skip"

\* Variant: --no-recreate is looked at before --force-recreate.
determine_container_action_no_recreate_first(container, state, existing_containers, a) ==
    LET current_hash == generate_container_config_hash(container)
        exists == container.name \in existing_containers
    IN  IF a.no_recreate THEN "Skip"
        ELSE IF a.force_recreate THEN (IF exists THEN "Recreate" ELSE "Create")
        ELSE IF ~exists THEN "Create"
        ELSE IF container.name \in DOMAIN state
             THEN (IF state[container.name].config_hash # current_hash
                   THEN "Update" ELSE "Skip")
             ELSE "Update"

determine_container_action(container, state, existing_containers, a) ==
    LET current_hash == generate_container_config_hash(container)
        exists == container.name \in existing_containers
    IN  IF a.force_recreate THEN (IF exists THEN "Recreate" ELSE "Create")
        ELSE IF a.no_recreate THEN "Skip"
        ELSE IF ~exists THEN "Create"
        ELSE IF container.name \in DOMAIN state
             THEN (IF state[container.name].config_hash # current_hash
                   THEN "Update" ELSE "Skip")
             ELSE "Update"

---------------------------------------------------------------------------
(* External commands.  A run's thread of values is the record              *)
(*   [ps, state, file, calls, asked, plan, err, cancelled].                *)
(* `fail` names the one command of the run that exits non-zero: <<op,key>> *)
(* (every failure is propagated with `?`, so a run sees at most one).      *)
(* A call records how many confirmations were resolved before it (prompts).*)

NoFail == <<"none", "">>
ContainerFailPoints ==
    {NoFail} \cup ({"rm", "create"} \X ContainerNames) \cup {<<"autostart", "">>}

\* The failure point of a command: podman create and podman run share
\* "create", userdel with and without -r share "userdel", the two ways of
\* writing a unit file share "install".
FailOp(op) ==
    IF op = "run" THEN "create"
    ELSE IF op = "userdel -r" THEN "userdel"
    ELSE IF op \in {"mv", "write"} THEN "install"
    ELSE op

\* run_command: issue the command, bail when it exits non-zero.
run_command(st, op, key, fail) ==
    LET ok == fail # <<FailOp(op), key>>
    IN  [st EXCEPT !.calls = Append(@, [op |-> op, key |-> key, ok |-> ok,
                                            prompts |-> Len(st.asked)]),
                   !.err = ~ok]

\* podman rm -f <name>
podman_rm(st, name, fail) ==
    LET s == run_command(st, "rm", name, fail)
    IN  IF s.err THEN s ELSE [s EXCEPT !.ps[name] = "absent"]

\* podman run -d --name=<name> --label managed-by=fedoraforge ...
create_and_start_container(container, st, fail) ==
    LET s == run_command(st, "run", container.name, fail)
    IN  IF s.err THEN s ELSE [s EXCEPT !.ps[container.name] = "managed"]

\* podman create --name=<name> --label managed-by=fedoraforge ...
create_container_only(container, st, fail) ==
    LET s == run_command(st, "create", container.name, fail)
    IN  IF s.err THEN s ELSE [s EXCEPT !.ps[container.name] = "managed"]

\* The ContainerInfo written for a container; `desc` is a history field (the
\* descriptor the record was written for), read by no operation of the engine.
ContainerInfo(container) ==
    [config_hash |-> generate_container_config_hash(container),
     managed |-> TRUE,
     desc |-> container]

\* Variant: a container with start_after_creation is started whatever its
\* autostart says.
execute_container_action_started_anyway(container, action, st, fail) ==
    IF action = "Skip" THEN st
    ELSE
        LET s1 == IF action \in {"Update", "Recreate"}
                  THEN podman_rm(st, container.name, fail)
                  ELSE st
            s2 == IF container.start_after_creation
                  THEN create_and_start_container(container, s1, fail)
                  ELSE create_container_only(container, s1, fail)
        IN  IF s1.err THEN s1
            ELSE IF s2.err THEN s2
            ELSE [s2 EXCEPT !.state = Insert(@, container.name, ContainerInfo(container))]

execute_container_action(container, action, st, fail) ==
    IF action = "Skip" THEN st
    ELSE
        LET s1 == IF action \in {"Update", "Recreate"}
                  THEN podman_rm(st, container.name, fail)
                  ELSE st
            auto == unwrap_or(container.autostart, FALSE)
            s2 == IF container.start_after_creation /\ ~auto
                  THEN create_and_start_container(container, s1, fail)
                  ELSE IF ~container.start_after_creation
                       THEN create_container_only(container, s1, fail)
                       ELSE s1
        IN  IF s1.err THEN s1
            ELSE IF s2.err THEN s2
            ELSE [s2 EXCEPT !.state = Insert(@, container.name, ContainerInfo(container))]

\* Quadlet files for the autostart containers, then enable-linger and
\* daemon-reload (one failure point for the two commands).
setup_container_autostart(autostart_containers, st, fail) ==
    LET written == [i \in 1..Len(autostart_containers) |->
                        [op |-> "quadlet", key |-> autostart_containers[i].name,
                         ok |-> TRUE, prompts |-> Len(st.asked)]]
        s == [st EXCEPT !.calls = @ \o written]
    IN  run_command(s, "daemon-reload", "", IF fail = <<"autostart", "">>
                                            THEN <<"daemon-reload", "">> ELSE fail)

RECURSIVE ExecuteActions(_, _, _, _)
\* for (container, action) in &actions { execute_container_action(...)?; }
ExecuteActions(actions, i, st, fail) ==
    IF i > Len(actions) \/ st.err THEN st
    ELSE ExecuteActions(actions, i + 1,
             execute_container_action(actions[i][1], actions[i][2], st, fail), fail)

\* The keys of a plan that are not Skip.
Applied(p) == {p[i][1] : i \in {j \in 1..Len(p) : p[j][2] # "Skip"}}

\* Variant: the actions are executed whatever the answer to "Proceed with
\* container operations?" is.
manage_containers_smart_regardless(containers, st, a, proceed, fail) ==
    LET state == st.file
        existing_containers == get_existing_containers(st.ps)
        actions == [i \in 1..Len(containers) |->
                        <<containers[i],
                          determine_container_action(containers[i], state,
                                                     existing_containers, a)>>]
        has_actions == \E i \in 1..Len(actions) : actions[i][2] # "Skip"
        s0 == [st EXCEPT !.state = state,
                         !.plan = [i \in 1..Len(actions) |->
                                      <<actions[i][1].name, actions[i][2]>>]]
        s1 == IF has_actions /\ ~a.yes
              THEN [s0 EXCEPT !.asked = Append(@, Asked("proceed", Applied(s0.plan),
                                                        a.yes, a.no, proceed))]
              ELSE s0
        s2 == ExecuteActions(actions, 1, s1, fail)
        s3 == [s2 EXCEPT !.file = s2.state]
        autostart_containers ==
            SelectSeq(containers, LAMBDA c : unwrap_or(c.autostart, FALSE))
    IN  IF s2.err THEN s2
        ELSE IF autostart_containers = <<>> THEN s3
        ELSE setup_container_autostart(autostart_containers, s3, fail)

manage_containers_smart(containers, st, a, proceed, fail) ==
    LET state == st.file
        existing_containers == get_existing_containers(st.ps)
        actions == [i \in 1..Len(containers) |->
                        <<containers[i],
                          determine_container_action(containers[i], state,
                                                     existing_containers, a)>>]
        has_actions == \E i \in 1..Len(actions) : actions[i][2] # "Skip"
        asks == has_actions /\ ~a.yes
        s0 == [st EXCEPT !.state = state,
                         !.plan = [i \in 1..Len(actions) |->
                                      <<actions[i][1].name, actions[i][2]>>]]
        s1 == IF asks
              THEN [s0 EXCEPT !.asked = Append(@, Asked("proceed", Applied(s0.plan),
                                                        a.yes, a.no, proceed))]
              ELSE s0
        s2 == ExecuteActions(actions, 1, s1, fail)
        s3 == [s2 EXCEPT !.file = s2.state]
        autostart_containers ==
            SelectSeq(containers, LAMBDA c : unwrap_or(c.autostart, FALSE))
    IN  IF asks /\ ~ask_user_confirmation(a.yes, a.no, proceed)
        THEN [s1 EXCEPT !.cancelled = TRUE]
        ELSE IF s2.err THEN s2
        ELSE IF autostart_containers = <<>> THEN s3
        ELSE setup_container_autostart(autostart_containers, s3, fail)

RECURSIVE RemoveOrphanContainers(_, _, _, _, _, _)
\* main(): every labelled container that is not configured is offered for
\* removal; the prompt is always interactive (yes = no = false).
RemoveOrphanContainers(managed, i, configured, st, answers, fail) ==
    IF i > Len(managed) \/ st.err THEN st
    ELSE IF managed[i] \in configured
         THEN RemoveOrphanContainers(managed, i + 1, configured, st, answers, fail)
         ELSE LET s1 == [st EXCEPT !.asked =
                             Append(@, Asked("remove_orphan", {managed[i]},
                                             FALSE, FALSE, answers[managed[i]]))]
                  s2 == IF ask_user_confirmation(FALSE, FALSE, answers[managed[i]])
                        THEN podman_rm(s1, managed[i], fail)
                        ELSE s1
              IN  RemoveOrphanContainers(managed, i + 1, configured, s2, answers, fail)

\* The podman section of main(): orphan reconciliation, then the smart
\* container lifecycle.
podman_section(containers, ps, file, a, answers, proceed, fail) ==
    LET st0 == [ps |-> ps, state |-> file, file |-> file, calls |-> <<>>,
                asked |-> <<>>, plan |-> <<>>, err |-> FALSE, cancelled |-> FALSE]
        s1 == RemoveOrphanContainers(managed_containers(ps), 1,
                                     DeclaredNames(containers), st0, answers, fail)
    IN  IF s1.err THEN s1
        ELSE manage_containers_smart(containers, s1, a, proceed, fail)

Outcome(st) == IF st.err THEN "err" ELSE IF st.cancelled THEN "cancelled" ELSE "ok"

---------------------------------------------------------------------------
(* Runs that read answers while they go.  A handler that prompts is a      *)
(* function from a thread to the SET of threads it can end in, one per     *)
(* answer the operator can give; Then is `?`: a failed thread is final.    *)

Inputs(yes, no) == IF yes \/ no THEN {FALSE} ELSE BOOLEAN

\* ask_user_confirmation as a step of a run: one thread per possible answer.
Ask(st, prompt, keys, yes, no) ==
    {[st EXCEPT !.asked = Append(@, Asked(prompt, keys, yes, no, input))] :
        input \in Inputs(yes, no)}

\* The answer of the confirmation resolved last.
Answer(st) == st.asked[Len(st.asked)].answer

Then(S, F(_)) == UNION {IF s.err THEN {s} ELSE F(s) : s \in S}

\* `let _ = run_command(..)`: the command may fail, the run goes on.
run_command_ignored(st, op, key, fail) ==
    [run_command(st, op, key, fail) EXCEPT !.err = FALSE]

Range(s) == {s[i] : i \in 1..Len(s)}
InOrder(order, S) == SelectSeq(order, LAMBDA n : n \in S)
Classify_as(S, order, action) ==
    [i \in 1..Len(InOrder(order, S)) |-> <<InOrder(order, S)[i], action>>]

---------------------------------------------------------------------------
(* Package lists (system packages through dnf, Flatpak applications).      *)
(* The thread of a run is [installed, toml, config_packages,               *)
(* packages_to_keep, packages_to_remove, calls, asked, plan, err,          *)
(* cancelled].  pip, npm and cargo repeat the Flatpak shape.               *)

PackageNames == {"git", "htop", "vim"}
\* Vec::sort order of the names and of the entry "flathub:vim", which names
\* the application vim with its remote
PackageOrder == <<"flathub:vim", "git", "htop", "vim">>
PackageManagers == {"dnf", "flatpak"}

PackageFailPoints ==
    {NoFail} \cup {<<"install", "">>} \cup ({"install", "remove"} \X PackageNames)

\* sort() then dedup()
sort_dedup(packages) == InOrder(PackageOrder, Range(packages))

get_user_installed_packages_nothing(installed) == <<>>

\* dnf repoquery --leaves --userinstalled / flatpak list --app: sorted, unique
get_user_installed_packages(installed) == InOrder(PackageOrder, installed)
get_installed_flatpaks(installed) == InOrder(PackageOrder, installed)

\* config/system-packages.toml, config/flatpak-packages.toml: packages = [..]
load_package_list(toml) == toml

\* sudo dnf install -y --skip-unavailable <all packages>: one command.
install_system_packages(st, packages, fail) ==
    IF packages = <<>> THEN st
    ELSE LET s == run_command(st, "install", "", fail)
         IN  IF s.err THEN s ELSE [s EXCEPT !.installed = @ \cup Range(packages)]

\* "<remote>:<app>" is split at the colon; an entry without a colon is an
\* application of flathub.
parse_flatpak_package(package) ==
    IF package = "flathub:vim" THEN <<"flathub", "vim">> ELSE <<"flathub", package>>

RECURSIVE install_flatpak_packages(_, _, _, _)
\* flatpak install -y <remote> <app>: one command per application.
install_flatpak_packages(st, packages, i, fail) ==
    IF i > Len(packages) \/ st.err THEN st
    ELSE LET app_id == parse_flatpak_package(packages[i])[2]
             s == run_command(st, "install", app_id, fail)
         IN  install_flatpak_packages(
                 IF s.err THEN s ELSE [s EXCEPT !.installed = @ \cup {app_id}],
                 packages, i + 1, fail)

RECURSIVE KeepOrRemove(_, _, _, _, _)
\* for pkg in &installed { if !config.contains(pkg) { "Do you want to keep
\* '<pkg>' installed?" -> keep (and add to the config) or remove } }
KeepOrRemove(installed_packages, i, st, yes, no) ==
    IF i > Len(installed_packages) THEN {st}
    ELSE LET pkg == installed_packages[i]
         IN  IF pkg \in Range(st.config_packages)
             THEN KeepOrRemove(installed_packages, i + 1, st, yes, no)
             ELSE UNION {
                    KeepOrRemove(installed_packages, i + 1,
                        IF Answer(s)
                        THEN [s EXCEPT !.packages_to_keep = Append(@, pkg),
                                       !.config_packages = Append(@, pkg)]
                        ELSE [s EXCEPT !.packages_to_remove = Append(@, pkg)],
                        yes, no) :
                    s \in Ask(st, "keep", {pkg}, yes, no)}

RECURSIVE RemovePackages(_, _, _, _)
\* for pkg in &packages_to_remove { run_command(<remove> pkg)?; }
RemovePackages(st, packages, i, fail) ==
    IF i > Len(packages) \/ st.err THEN st
    ELSE LET s == run_command(st, "remove", packages[i], fail)
         IN  RemovePackages(
                 IF s.err THEN s ELSE [s EXCEPT !.installed = @ \ {packages[i]}],
                 packages, i + 1, fail)

\* update_system_packages_file / update_flatpak_packages_file, after
\* config_packages.sort(); config_packages.dedup().
UpdatePackagesFile(st) ==
    IF st.packages_to_keep # <<>> \/ st.packages_to_remove # <<>>
    THEN [st EXCEPT !.config_packages = sort_dedup(@), !.toml = sort_dedup(st.config_packages)]
    ELSE st

PackagesThread(installed, toml, to_install, installed_packages) ==
    [installed |-> installed, toml |-> toml,
     config_packages |-> load_package_list(toml),
     packages_to_keep |-> <<>>, packages_to_remove |-> <<>>,
     calls |-> <<>>, asked |-> <<>>,
     plan |-> [i \in 1..Len(to_install) |-> <<to_install[i], "Install">>]
              \o Classify_as(Range(installed_packages) \ Range(toml), PackageOrder, "Undeclared"),
     err |-> FALSE, cancelled |-> FALSE]

sync_system_packages(installed, toml, yes, no, fail) ==
    LET installed_packages == get_user_installed_packages(installed)
        config_packages == load_package_list(toml)
        packages_to_install ==
            SelectSeq(config_packages, LAMBDA p : p \notin Range(installed_packages))
        st0 == PackagesThread(installed, toml, packages_to_install, installed_packages)
        S1 == KeepOrRemove(installed_packages, 1, st0, yes, no)
        S2 == Then(S1, LAMBDA s : {install_system_packages(s, packages_to_install, fail)})
        S3 == Then(S2, LAMBDA s : {RemovePackages(s, s.packages_to_remove, 1, fail)})
    IN  Then(S3, LAMBDA s : {UpdatePackagesFile(s)})

sync_flatpak_packages(installed, toml, yes, no, fail) ==
    LET installed_flatpaks == get_installed_flatpaks(installed)
        config_flatpaks == load_package_list(toml)
        flatpaks_to_install ==
            SelectSeq(config_flatpaks, LAMBDA p : p \notin Range(installed_flatpaks))
        st0 == PackagesThread(installed, toml, flatpaks_to_install, installed_flatpaks)
        S1 == KeepOrRemove(installed_flatpaks, 1, st0, yes, no)
        S2 == Then(S1, LAMBDA s : {install_flatpak_packages(s, flatpaks_to_install, 1, fail)})
        S3 == Then(S2, LAMBDA s : {RemovePackages(s, s.packages_to_remove, 1, fail)})
    IN  Then(S3, LAMBDA s : {UpdatePackagesFile(s)})

\* main(): a failure of sync_system_packages ends the process; a failure of
\* sync_flatpak_packages is printed as a warning and the process goes on.
PackagesOutcome(manager, st) ==
    IF ~st.err THEN "ok" ELSE IF manager = "dnf" THEN "err" ELSE "warned"

---------------------------------------------------------------------------
(* Users and groups.  A user is read through uid and shell, a group        *)
(* through gid; the other attributes (primary gid, home, comment,          *)
(* supplementary groups, members) are compared and applied the way shell   *)
(* is.  A name is a string; Spelling gives its characters, which is what   *)
(* validate_username reads.                                                *)
(* The thread of a run is [passwd, group, state, file, toml, calls, asked, *)
(* plan, err, cancelled].                                                  *)

MIN_USER_UID == 1000
MIN_GROUP_GID == 1000
MAX_USER_UID == 60000
MAX_GROUP_GID == 60000

\* "Bob" is an account name the regex of validate_username rejects.
UserNames == {"alice", "bob", "Bob"}
GroupNames == {"dev"}
\* the orders in which a HashMap of users can be iterated
UserOrders == {<<"alice", "bob", "Bob">>, <<"bob", "alice", "Bob">>}
GroupOrder == <<"dev">>
\* /etc/shells
EtcShells == {"/bin/bash", "/bin/zsh"}

\* What useradd / groupadd pick when the configuration asks for nothing.
NextFreeUid(name) == IF name = "alice" THEN 1001 ELSE IF name = "bob" THEN 1002 ELSE 1003
NextFreeGid(name) == 2000
DefaultShell(name) == "/bin/bash"

UsersGroupsFailPoints ==
    {NoFail} \cup {<<"backup", "">>}
             \cup ({"groupadd", "groupmod", "groupdel"} \X GroupNames)
             \cup ({"useradd", "usermod", "userdel"} \X UserNames)

\* The characters of the names of the domain.
Spelling(name) ==
    CASE name = "alice" -> <<"a", "l", "i", "c", "e">>
      [] name = "bob" -> <<"b", "o", "b">>
      [] name = "Bob" -> <<"B", "o", "b">>
      [] name = "dev" -> <<"d", "e", "v">>

LowerCase ==
    {"a", "b", "c", "d", "e", "f", "g", "h", "i", "j", "k", "l", "m",
     "n", "o", "p", "q", "r", "s", "t", "u", "v", "w", "x", "y", "z"}
Digits == {"0", "1", "2", "3", "4", "5", "6", "7", "8", "9"}
MaxNameLen == 32

\* ^[a-z_][a-z0-9_-]*[$]?$ and at most 32 characters
validate_username(username) ==
    LET s == Spelling(username)
        body == LowerCase \cup Digits \cup {"_", "-"}
    IN  /\ Len(s) >= 1
        /\ s[1] \in LowerCase \cup {"_"}
        /\ \A i \in 2..(Len(s) - 1) : s[i] \in body
        /\ Len(s) >= 2 => s[Len(s)] \in body \cup {"$"}
        /\ Len(s) <= MaxNameLen

validate_groupname(groupname) == validate_username(groupname)

validate_uid(uid) == uid >= MIN_USER_UID /\ uid <= MAX_USER_UID
validate_gid(gid) == gid >= MIN_GROUP_GID /\ gid <= MAX_GROUP_GID
validate_shell(shell) == shell \in EtcShells

Bail(st) == [st EXCEPT !.err = TRUE]

\* sudo cp -p /etc/{passwd,group,shadow} <backup>: one failure point.
backup_user_files(st, fail) == run_command(st, "backup", "", fail)

\* /etc/passwd, without the accounts outside MIN_USER_UID..MAX_USER_UID
get_current_users(passwd) ==
    [n \in {m \in DOMAIN passwd :
                passwd[m].uid >= MIN_USER_UID /\ passwd[m].uid <= MAX_USER_UID}
        |-> passwd[n]]

\* /etc/group, without the groups outside MIN_GROUP_GID..MAX_GROUP_GID
get_current_groups(group) ==
    [n \in {m \in DOMAIN group :
                group[m].gid >= MIN_GROUP_GID /\ group[m].gid <= MAX_GROUP_GID}
        |-> group[n]]

\* config/users-groups.toml; a missing file or section is None.
load_users_groups_config(toml) == toml

\* The file is rewritten from the discovered entries alone: a section is
\* written only when it has entries.
update_users_groups_config_with_discovered(st, discovered_users, discovered_groups) ==
    [st EXCEPT !.toml =
        [users |-> IF DOMAIN discovered_users = {} THEN None
                   ELSE Some([n \in DOMAIN discovered_users |->
                                [uid |-> Some(discovered_users[n].uid),
                                 shell |-> Some(discovered_users[n].shell)]]),
         groups |-> IF DOMAIN discovered_groups = {} THEN None
                    ELSE Some([n \in DOMAIN discovered_groups |->
                                [gid |-> Some(discovered_groups[n].gid)]])]]

\* sudo groupadd [-g gid] <name>; groupadd fails on a group that exists.
create_group(st, groupname, config, fail) ==
    IF ~validate_groupname(groupname) THEN Bail(st)
    ELSE IF config.gid # None /\ ~validate_gid(config.gid[1]) THEN Bail(st)
    ELSE LET s == run_command(st, "groupadd", groupname,
                              IF groupname \in DOMAIN st.group
                              THEN <<"groupadd", groupname>> ELSE fail)
         IN  IF s.err THEN s
             ELSE [s EXCEPT !.group = Insert(@, groupname,
                        [gid |-> unwrap_or(config.gid, NextFreeGid(groupname))])]

\* sudo groupmod -g <gid> <name>, when the declared gid differs
modify_group(st, groupname, current, desired, fail) ==
    IF desired.gid # None /\ desired.gid[1] # current.gid
    THEN IF ~validate_gid(desired.gid[1]) THEN Bail(st)
         ELSE LET s == run_command(st, "groupmod", groupname, fail)
              IN  IF s.err THEN s ELSE [s EXCEPT !.group[groupname].gid = desired.gid[1]]
    ELSE st

\* sudo groupdel <name>; groupdel fails on a group that does not exist.
delete_group(st, groupname, fail) ==
    IF ~validate_groupname(groupname) THEN Bail(st) ELSE
    LET s == run_command(st, "groupdel", groupname,
                         IF groupname \in DOMAIN st.group THEN fail
                         ELSE <<"groupdel", groupname>>)
    IN  IF s.err THEN s ELSE [s EXCEPT !.group = Remove(@, groupname)]

\* sudo useradd [-u uid] [-s shell] -m <name>; useradd fails on a user that
\* exists.
create_user(st, username, config, fail) ==
    IF ~validate_username(username) THEN Bail(st)
    ELSE IF config.uid # None /\ ~validate_uid(config.uid[1]) THEN Bail(st)
    ELSE IF config.shell # None /\ ~validate_shell(config.shell[1]) THEN Bail(st)
    ELSE LET s == run_command(st, "useradd", username,
                              IF username \in DOMAIN st.passwd
                              THEN <<"useradd", username>> ELSE fail)
         IN  IF s.err THEN s
             ELSE [s EXCEPT !.passwd = Insert(@, username,
                        [uid |-> unwrap_or(config.uid, NextFreeUid(username)),
                         shell |-> unwrap_or(config.shell, DefaultShell(username))])]

\* sudo usermod -u <uid> <name>, then sudo usermod -s <shell> <name>, each
\* when the declared value differs; the user's failure point is the first
\* usermod issued for it.
modify_user(st, username, current, desired, fail) ==
    LET uid_differs == desired.uid # None /\ desired.uid[1] # current.uid
        shell_differs == desired.shell # None /\ desired.shell[1] # current.shell
        s1 == IF ~uid_differs THEN st
              ELSE IF ~validate_uid(desired.uid[1]) THEN Bail(st)
              ELSE LET s == run_command(st, "usermod", username, fail)
                   IN  IF s.err THEN s ELSE [s EXCEPT !.passwd[username].uid = desired.uid[1]]
        s2 == IF s1.err \/ ~shell_differs THEN s1
              ELSE IF ~validate_shell(desired.shell[1]) THEN Bail(s1)
              ELSE LET s == run_command(s1, "usermod", username,
                                        IF uid_differs THEN NoFail ELSE fail)
                   IN  IF s.err THEN s ELSE [s EXCEPT !.passwd[username].shell = desired.shell[1]]
    IN  s2

\* sudo userdel [-r] <name>; userdel fails on a user that does not exist.
delete_user(st, username, remove_home, fail) ==
    IF ~validate_username(username) THEN Bail(st) ELSE
    LET s == run_command(st, IF remove_home THEN "userdel -r" ELSE "userdel", username,
                         IF username \in DOMAIN st.passwd THEN fail
                         ELSE <<"userdel", username>>)
    IN  IF s.err THEN s ELSE [s EXCEPT !.passwd = Remove(@, username)]

RECURSIVE DeleteGroups(_, _, _, _, _)
\* for group in &groups { delete_group(group)?; [state.managed_groups.remove(group);] }
DeleteGroups(st, groups, i, forget, fail) ==
    IF i > Len(groups) \/ st.err THEN st
    ELSE LET s == delete_group(st, groups[i], fail)
         IN  DeleteGroups(
                 IF s.err \/ ~forget THEN s
                 ELSE [s EXCEPT !.state.managed_groups = Remove(@, groups[i])],
                 groups, i + 1, forget, fail)

RECURSIVE DeleteUsers(_, _, _, _, _)
\* for user in &users { "Remove home directory for user '<user>'?" (always
\* read from the operator); delete_user(user, answer)?;
\* [state.managed_users.remove(user);] }
DeleteUsers(st, users, i, forget, fail) ==
    IF i > Len(users) \/ st.err THEN {st}
    ELSE UNION {
            LET s == delete_user(a, users[i], Answer(a), fail)
            IN  DeleteUsers(
                    IF s.err \/ ~forget THEN s
                    ELSE [s EXCEPT !.state.managed_users = Remove(@, users[i])],
                    users, i + 1, forget, fail) :
            a \in Ask(st, "remove_home", {users[i]}, FALSE, FALSE)}

\* "What would you like to do with these ...?  1. Add to config  2. Delete
\* from system  3. Ignore": --yes adds to the config, --no does nothing,
\* otherwise the choice is read from the operator.
Choices == {"1", "2", "3"}
Choose(st, prompt, keys, yes, no) ==
    {[st EXCEPT !.asked = Append(@, [prompt |-> prompt, keys |-> keys,
                                     answer |-> choice = "1",
                                     blocked |-> ~yes /\ ~no,
                                     choice |-> choice])] :
        choice \in IF yes THEN {"1"} ELSE IF no THEN {"3"} ELSE Choices}
Choice(st) == st.asked[Len(st.asked)].choice

RECURSIVE CreateGroups(_, _, _, _, _)
\* for (name, config) in groups_to_create { create_group(..)?; the group is
\* read back and recorded }
CreateGroups(st, declared, names, i, fail) ==
    IF i > Len(names) \/ st.err THEN st
    ELSE LET s == create_group(st, names[i], declared[names[i]], fail)
             created_info == get_current_groups(s.group)
         IN  CreateGroups(
                 IF s.err \/ names[i] \notin DOMAIN created_info THEN s
                 ELSE [s EXCEPT !.state.managed_groups =
                          Insert(@, names[i], [gid |-> created_info[names[i]].gid])],
                 declared, names, i + 1, fail)

RECURSIVE ModifyGroups(_, _, _, _, _, _)
\* for (name, desired, current) in groups_to_modify { modify_group(..)?;
\* record desired.gid.unwrap_or(current.gid) }
ModifyGroups(st, declared, current, names, i, fail) ==
    IF i > Len(names) \/ st.err THEN st
    ELSE LET s == modify_group(st, names[i], current[names[i]], declared[names[i]], fail)
         IN  ModifyGroups(
                 IF s.err THEN s
                 ELSE [s EXCEPT !.state.managed_groups =
                          Insert(@, names[i],
                                 [gid |-> unwrap_or(declared[names[i]].gid,
                                                    current[names[i]].gid)])],
                 declared, current, names, i + 1, fail)

\* state.managed_groups.entry(name).or_insert(..) for every declared group
\* of the snapshot
RecordDeclaredGroups(st, declared, current) ==
    [st EXCEPT !.state.managed_groups =
        [n \in DOMAIN @ \cup (DOMAIN declared \cap DOMAIN current) |->
            IF n \in DOMAIN @ THEN @[n] ELSE [gid |-> current[n].gid]]]

sync_groups_bidirectional(declared, current, st, yes, no, fail) ==
    LET undeclared_groups ==
            [n \in {m \in DOMAIN current : m \notin DOMAIN declared
                                           /\ m \notin DOMAIN st.state.managed_groups}
                |-> current[n]]
        undeclared == InOrder(GroupOrder, DOMAIN undeclared_groups)
        groups_to_create == InOrder(GroupOrder, DOMAIN declared \ DOMAIN current)
        groups_to_modify ==
            InOrder(GroupOrder,
                    {n \in DOMAIN declared \cap DOMAIN current :
                        declared[n].gid # None /\ declared[n].gid[1] # current[n].gid})
        s0 == [st EXCEPT !.plan = @ \o Classify_as(Range(undeclared), GroupOrder, "Undeclared")
                                    \o Classify_as(Range(groups_to_create), GroupOrder, "Create")
                                    \o Classify_as(Range(groups_to_modify), GroupOrder, "Update")]
        S1 == IF undeclared = <<>> THEN {s0}
              ELSE Then(Choose(s0, "undeclared_groups", Range(undeclared), yes, no),
                     LAMBDA c :
                       IF Choice(c) = "1"
                       THEN {update_users_groups_config_with_discovered(
                                 c, EmptyMap, undeclared_groups)}
                       ELSE IF Choice(c) = "2"
                       THEN Then(Ask(c, "delete_undeclared_groups", Range(undeclared),
                                     FALSE, FALSE),
                              LAMBDA s : IF Answer(s)
                                         THEN {DeleteGroups(s, undeclared, 1, FALSE, fail)}
                                         ELSE {s})
                       ELSE {c})
        S2 == IF groups_to_create = <<>> THEN S1
              ELSE Then(Then(S1, LAMBDA s : Ask(s, "create_groups", Range(groups_to_create),
                                                yes, no)),
                     LAMBDA s : IF Answer(s)
                                THEN {CreateGroups(s, declared, groups_to_create, 1, fail)}
                                ELSE {s})
        S3 == IF groups_to_modify = <<>> THEN S2
              ELSE Then(Then(S2, LAMBDA s : Ask(s, "modify_groups", Range(groups_to_modify),
                                                yes, no)),
                     LAMBDA s : IF Answer(s)
                                THEN {ModifyGroups(s, declared, current, groups_to_modify,
                                                   1, fail)}
                                ELSE {s})
    IN  Then(S3, LAMBDA s : {RecordDeclaredGroups(s, declared, current)})

RECURSIVE CreateUsers(_, _, _, _, _)
CreateUsers(st, declared, names, i, fail) ==
    IF i > Len(names) \/ st.err THEN st
    ELSE LET s == create_user(st, names[i], declared[names[i]], fail)
             created_info == get_current_users(s.passwd)
         IN  CreateUsers(
                 IF s.err \/ names[i] \notin DOMAIN created_info THEN s
                 ELSE [s EXCEPT !.state.managed_users =
                          Insert(@, names[i], [uid |-> created_info[names[i]].uid])],
                 declared, names, i + 1, fail)

RECURSIVE ModifyUsers(_, _, _, _, _, _)
ModifyUsers(st, declared, current, names, i, fail) ==
    IF i > Len(names) \/ st.err THEN st
    ELSE LET s == modify_user(st, names[i], current[names[i]], declared[names[i]], fail)
         IN  ModifyUsers(
                 IF s.err THEN s
                 ELSE [s EXCEPT !.state.managed_users =
                          Insert(@, names[i],
                                 [uid |-> unwrap_or(declared[names[i]].uid,
                                                    current[names[i]].uid)])],
                 declared, current, names, i + 1, fail)

\* A variant that records every user of the snapshot, declared or not.
RecordDeclaredUsers_every_current(st, declared, current) ==
    [st EXCEPT !.state.managed_users =
        [n \in DOMAIN @ \cup DOMAIN current |->
            IF n \in DOMAIN @ THEN @[n] ELSE [uid |-> current[n].uid]]]

\* state.managed_users.entry(name).or_insert(..) for every declared user of
\* the snapshot
RecordDeclaredUsers(st, declared, current) ==
    [st EXCEPT !.state.managed_users =
        [n \in DOMAIN @ \cup (DOMAIN declared \cap DOMAIN current) |->
            IF n \in DOMAIN @ THEN @[n] ELSE [uid |-> current[n].uid]]]

sync_users_bidirectional(declared, current, st, yes, no, order, fail) ==
    LET undeclared_users ==
            [n \in {m \in DOMAIN current : m \notin DOMAIN declared
                                           /\ m \notin DOMAIN st.state.managed_users}
                |-> current[n]]
        undeclared == InOrder(order, DOMAIN undeclared_users)
        users_to_create == InOrder(order, DOMAIN declared \ DOMAIN current)
        users_to_modify ==
            InOrder(order,
                    {n \in DOMAIN declared \cap DOMAIN current :
                        \/ declared[n].uid # None /\ declared[n].uid[1] # current[n].uid
                        \/ declared[n].shell # None /\ declared[n].shell[1] # current[n].shell})
        s0 == [st EXCEPT !.plan = @ \o Classify_as(Range(undeclared), order, "Undeclared")
                                    \o Classify_as(Range(users_to_create), order, "Create")
                                    \o Classify_as(Range(users_to_modify), order, "Update")]
        S1 == IF undeclared = <<>> THEN {s0}
              ELSE Then(Choose(s0, "undeclared_users", Range(undeclared), yes, no),
                     LAMBDA c :
                       IF Choice(c) = "1"
                       THEN {update_users_groups_config_with_discovered(
                                 c, undeclared_users, EmptyMap)}
                       ELSE IF Choice(c) = "2"
                       THEN Then(Ask(c, "delete_undeclared_users", Range(undeclared),
                                     FALSE, FALSE),
                              LAMBDA s : IF Answer(s)
                                         THEN DeleteUsers(s, undeclared, 1, FALSE, fail)
                                         ELSE {s})
                       ELSE {c})
        S2 == IF users_to_create = <<>> THEN S1
              ELSE Then(Then(S1, LAMBDA s : Ask(s, "create_users", Range(users_to_create),
                                                yes, no)),
                     LAMBDA s : IF Answer(s)
                                THEN {CreateUsers(s, declared, users_to_create, 1, fail)}
                                ELSE {s})
        S3 == IF users_to_modify = <<>> THEN S2
              ELSE Then(Then(S2, LAMBDA s : Ask(s, "modify_users", Range(users_to_modify),
                                                yes, no)),
                     LAMBDA s : IF Answer(s)
                                THEN {ModifyUsers(s, declared, current, users_to_modify,
                                                  1, fail)}
                                ELSE {s})
    IN  Then(S3, LAMBDA s : {RecordDeclaredUsers(s, declared, current)})

\* save_users_groups_state
save_users_groups_state(st) == [st EXCEPT !.file = st.state]

SyncOrder_users_first == <<"users", "groups">>

\* "Sync groups first (users may depend on groups)", "Then sync users"
SyncOrder == <<"groups", "users">>

sync_users_and_groups(toml, passwd, group, file, yes, no, order, fail) ==
    LET config == load_users_groups_config(toml)
        state == file
        current_users == get_current_users(passwd)
        current_groups == get_current_groups(group)
        declared_group_names ==
            IF config.groups = None THEN {} ELSE DOMAIN config.groups[1]
        orphaned_groups ==
            InOrder(GroupOrder, {n \in DOMAIN state.managed_groups :
                                    n \notin declared_group_names
                                    /\ n \in DOMAIN current_groups})
        declared_user_names ==
            IF config.users = None THEN {} ELSE DOMAIN config.users[1]
        orphaned_users ==
            InOrder(order, {n \in DOMAIN state.managed_users :
                                n \notin declared_user_names
                                /\ n \in DOMAIN current_users})
        st0 == [passwd |-> passwd, group |-> group, state |-> state, file |-> file,
                toml |-> toml, calls |-> <<>>, asked |-> <<>>,
                plan |-> Classify_as(Range(orphaned_groups), GroupOrder, "Delete")
                         \o Classify_as(Range(orphaned_users), order, "Delete"),
                err |-> FALSE, cancelled |-> FALSE]
        S0 == {backup_user_files(st0, fail)}
        S1 == IF orphaned_groups = <<>> THEN S0
              ELSE Then(Then(S0, LAMBDA s : Ask(s, "delete_orphaned_groups",
                                                Range(orphaned_groups), yes, no)),
                     LAMBDA s : IF Answer(s)
                                THEN {DeleteGroups(s, orphaned_groups, 1, TRUE, fail)}
                                ELSE {s})
        S2 == IF orphaned_users = <<>> THEN S1
              ELSE Then(Then(S1, LAMBDA s : Ask(s, "delete_orphaned_users",
                                                Range(orphaned_users), yes, no)),
                     LAMBDA s : IF Answer(s)
                                THEN DeleteUsers(s, orphaned_users, 1, TRUE, fail)
                                ELSE {s})
        SyncGroups(S) ==
            IF config.groups = None THEN S
            ELSE Then(S, LAMBDA s : sync_groups_bidirectional(
                            config.groups[1], current_groups, s, yes, no, fail))
        SyncUsers(S) ==
            IF config.users = None THEN S
            ELSE Then(S, LAMBDA s : sync_users_bidirectional(
                            config.users[1], current_users, s, yes, no, order, fail))
        Sync(kind, S) == IF kind = "groups" THEN SyncGroups(S) ELSE SyncUsers(S)
        S3 == Sync(SyncOrder[1], S2)
        S4 == Sync(SyncOrder[2], S3)
    IN  Then(S4, LAMBDA s : {save_users_groups_state(s)})

---------------------------------------------------------------------------
(* Custom services (systemd units written from the configuration).         *)
(* A unit definition is a sequence of characters.  The thread of a run is  *)
(* [units, state, file, calls, asked, plan, err, cancelled]; units maps    *)
(* the name of an installed unit to [definition, enabled, active].         *)

ServiceNames == {"backup", "sync"}
ServiceOrder ==
    <<"backup", "sync", "cups-autostart", "firefox-autostart", "sshd-autostart">>
ServiceScopes == {"System", "User"}
Definitions == {<<"a">>, <<"b">>, <<"a", " ">>}

ServiceFailPoints ==
    {NoFail} \cup ({"install", "daemon-reload", "enable"} \X ServiceNames)

\* the white space of the texts of the model
White_Space == {" ", "\t", "\n"}
RECURSIVE trim_start(_)
trim_start(s) == IF s # <<>> /\ Head(s) \in White_Space THEN trim_start(Tail(s)) ELSE s
RECURSIVE trim_end(_)
trim_end(s) ==
    IF s # <<>> /\ s[Len(s)] \in White_Space THEN trim_end(SubSeq(s, 1, Len(s) - 1)) ELSE s
\* str::trim
trim(s) == trim_end(trim_start(s))

\* Sha256 over the trimmed service definition, then the trimmed timer
\* definition when there is one.
generate_service_hash(service_def, timer_def) ==
    trim(service_def) \o (IF timer_def = None THEN <<>> ELSE trim(timer_def[1]))

\* the map of the scope inside CustomServicesState
state_map(state, scope) ==
    IF scope = "System" THEN state.system_services ELSE state.user_services
with_state_map(state, scope, m) ==
    IF scope = "System" THEN [state EXCEPT !.system_services = m]
    ELSE [state EXCEPT !.user_services = m]

\* systemctl [--user] is-enabled / is-active: false for a unit that is missing
check_service_enabled(units, name) == name \in DOMAIN units /\ units[name].enabled
check_service_active(units, name) == name \in DOMAIN units /\ units[name].active

\* A systemctl command on a unit: it fails on a unit that is not installed.
systemctl(st, op, name, fail) ==
    run_command(st, op, name, IF name \in DOMAIN st.units THEN fail ELSE <<op, name>>)

\* System scope: sudo mv /tmp/<name>.service /etc/systemd/system/; User
\* scope: fs::write into ~/.config/systemd/user.  Then daemon-reload, then
\* the record.
install_custom_service(st, service, content_hash, scope, fail) ==
    LET s1 == run_command(st, IF scope = "System" THEN "mv" ELSE "write",
                          service.name, fail)
        s2 == [s1 EXCEPT !.units = Insert(@, service.name,
                    [definition |-> service.service_definition,
                     enabled |-> check_service_enabled(st.units, service.name),
                     active |-> check_service_active(st.units, service.name)])]
        s3 == run_command(s2, "daemon-reload", service.name, fail)
    IN  IF s1.err THEN s1
        ELSE IF s3.err THEN s3
        ELSE [s3 EXCEPT !.state = with_state_map(@, scope,
                  Insert(state_map(@, scope), service.name,
                         [content_hash |-> content_hash]))]

\* enable or disable, then start or stop, where the unit is not as declared
sync_custom_service_state(st, service, scope, fail) ==
    LET is_enabled == check_service_enabled(st.units, service.name)
        is_active == check_service_active(st.units, service.name)
        s1 == IF is_enabled = service.enabled THEN st
              ELSE LET s == systemctl(st, IF service.enabled THEN "enable" ELSE "disable",
                                      service.name, fail)
                   IN  IF s.err THEN s
                       ELSE [s EXCEPT !.units[service.name].enabled = service.enabled]
        s2 == IF s1.err \/ is_active = service.started THEN s1
              ELSE LET s == systemctl(s1, IF service.started THEN "start" ELSE "stop",
                                      service.name, fail)
                   IN  IF s.err THEN s
                       ELSE [s EXCEPT !.units[service.name].active = service.started]
    IN  s2

\* stop and disable (failures ignored), remove the unit files (failures
\* ignored), daemon-reload (propagated).
remove_custom_service(st, name, scope, fail) ==
    LET s1 == run_command_ignored(st, "stop", name, fail)
        s2 == run_command_ignored(s1, "disable", name, fail)
        s3 == run_command_ignored(s2, IF scope = "System" THEN "rm" ELSE "remove_file",
                                  name, fail)
        s4 == [s3 EXCEPT !.units = Remove(@, name)]
    IN  run_command(s4, "daemon-reload", name, fail)

RECURSIVE RemoveServices(_, _, _, _, _)
\* for name in &orphaned { remove_custom_service(name, scope)?; state_map.remove(name); }
RemoveServices(st, orphaned, i, scope, fail) ==
    IF i > Len(orphaned) \/ st.err THEN st
    ELSE LET s == remove_custom_service(st, orphaned[i], scope, fail)
         IN  RemoveServices(
                 IF s.err THEN s
                 ELSE [s EXCEPT !.state = with_state_map(@, scope,
                           Remove(state_map(@, scope), orphaned[i]))],
                 orphaned, i + 1, scope, fail)

\* Variant: the orphaned services are removed whatever the answer is.
cleanup_orphaned_custom_services_ungated(current_services, st, scope, yes, no, fail) ==
    LET current_names == {current_services[i].name : i \in 1..Len(current_services)}
        orphaned == InOrder(ServiceOrder, DOMAIN state_map(st.state, scope) \ current_names)
    IN  IF orphaned = <<>> THEN {st}
        ELSE Then(Ask(st, "remove_orphaned_services", Range(orphaned), yes, no),
               LAMBDA s : {RemoveServices(s, orphaned, 1, scope, fail)})

cleanup_orphaned_custom_services(current_services, st, scope, yes, no, fail) ==
    LET current_names == {current_services[i].name : i \in 1..Len(current_services)}
        orphaned == InOrder(ServiceOrder, DOMAIN state_map(st.state, scope) \ current_names)
    IN  IF orphaned = <<>> THEN {st}
        ELSE Then(Ask(st, "remove_orphaned_services", Range(orphaned), yes, no),
               LAMBDA s : IF Answer(s)
                          THEN {RemoveServices(s, orphaned, 1, scope, fail)}
                          ELSE {s})

RECURSIVE SyncServices(_, _, _, _, _, _, _)
\* for service in custom_services { install or update when the record is
\* missing or its content_hash differs (after confirmation); then
\* sync_custom_service_state(service)?; }
SyncServices(custom_services, i, st, scope, yes, no, fail) ==
    IF i > Len(custom_services) \/ st.err THEN {st}
    ELSE LET service == custom_services[i]
             service_hash == generate_service_hash(service.service_definition,
                                                   service.timer_definition)
             m == state_map(st.state, scope)
             needs_install == \/ service.name \notin DOMAIN m
                              \/ m[service.name].content_hash # service_hash
             s0 == IF needs_install
                   THEN [st EXCEPT !.plan = Append(@, <<service.name, "Install">>)]
                   ELSE [st EXCEPT !.plan = Append(@, <<service.name, "Skip">>)]
             S1 == IF ~needs_install THEN {s0}
                   ELSE Then(Ask(s0, "install_service", {service.name}, yes, no),
                          LAMBDA s : IF Answer(s)
                                     THEN {install_custom_service(s, service, service_hash,
                                                                  scope, fail)}
                                     ELSE {s})
             S2 == Then(S1, LAMBDA s : {sync_custom_service_state(s, service, scope, fail)})
         IN  UNION {SyncServices(custom_services, i + 1, s, scope, yes, no, fail) : s \in S2}

\* save_custom_services_state
save_custom_services_state(st) == [st EXCEPT !.file = st.state]

sync_custom_services(custom_services, scope, units, file, yes, no, fail) ==
    LET st0 == [units |-> units, state |-> file, file |-> file, calls |-> <<>>,
                asked |-> <<>>, plan |-> <<>>, err |-> FALSE, cancelled |-> FALSE]
        S1 == SyncServices(custom_services, 1, st0, scope, yes, no, fail)
        S2 == Then(S1, LAMBDA s : cleanup_orphaned_custom_services(
                                      custom_services, s, scope, yes, no, fail))
    IN  Then(S2, LAMBDA s : {save_custom_services_state(s)})

---------------------------------------------------------------------------
(* Services of a scope (units enabled, disabled, started and stopped as    *)
(* config/system-services.toml or config/user-services.toml declares).     *)
(* The file is the sequence of its tables; the entries of a table are its  *)
(* lines `"<name>" = { enabled = .., started = .. }`, in file order.  A    *)
(* [[custom_services]] table declares the custom service SyncUnit; the     *)
(* entries of an [applications] table are the applications to start at     *)
(* login, with their `enabled`.  The thread of a run is [units, toml,      *)
(* state, file, calls, asked, plan, err, cancelled].                       *)

UnitNames == {"cups", "sshd"}
UnitOrder == <<"cups", "sshd">>
Table(table, entries) == [table |-> table, entries |-> entries]
Entry(name, enabled, started) == [name |-> name, enabled |-> enabled, started |-> started]
SyncUnit ==
    [name |-> "sync", service_definition |-> <<"a">>, timer_definition |-> None,
     enabled |-> TRUE, started |-> FALSE]

EmptyServicesConfig == [services |-> None, custom_services |-> None, applications |-> None]

\* toml::from_str: a key defined twice in a table is an error; a key the
\* struct of its table does not know is ignored, and so is the
\* [applications] table in the system scope.
load_services_config(toml, scope) ==
    LET Keys(t) == {t.entries[i].name : i \in DOMAIN t.entries}
        services == {i \in DOMAIN toml : toml[i].table = "services"}
        custom == {i \in DOMAIN toml : toml[i].table = "custom_services"}
        apps == {i \in DOMAIN toml : toml[i].table = "applications"}
    IN  IF \E i \in DOMAIN toml : Cardinality(Keys(toml[i])) # Len(toml[i].entries)
        THEN None
        ELSE Some([services |->
                      IF services = {} THEN None
                      ELSE LET t == toml[CHOOSE i \in services : TRUE]
                           IN  Some([n \in Keys(t) |->
                                       LET e == t.entries[CHOOSE i \in DOMAIN t.entries :
                                                            t.entries[i].name = n]
                                       IN  [enabled |-> e.enabled, started |-> e.started]]),
                   custom_services |-> IF custom = {} THEN None ELSE Some(<<SyncUnit>>),
                   applications |->
                      IF apps = {} \/ scope = "System" THEN None
                      ELSE LET t == toml[CHOOSE i \in apps : TRUE]
                           IN  Some([n \in Keys(t) |->
                                       LET e == t.entries[CHOOSE i \in DOMAIN t.entries :
                                                            t.entries[i].name = n]
                                       IN  [enabled |-> e.enabled]])])

\* An empty file gets "[services]" and the discovered lines; any other file
\* gets the discovered lines appended at its end, which is the end of its
\* last table.
update_services_config_with_discovered(toml, discovered) ==
    LET lines == [i \in 1..Len(discovered) |->
                    Entry(discovered[i][1], discovered[i][2].enabled,
                          discovered[i][2].active)]
    IN  IF toml = <<>> THEN <<Table("services", lines)>>
        ELSE [toml EXCEPT ![Len(toml)].entries = @ \o lines]

\* systemctl list-unit-files / list-units, and the custom services state
get_current_services(units, custom_state, scope) ==
    [n \in DOMAIN units |->
        [enabled |-> units[n].enabled, active |-> units[n].active, exists |-> TRUE,
         is_custom |-> n \in DOMAIN state_map(custom_state, scope)]]

RECURSIVE apply_service_changes_start_first(_, _, _, _, _, _)
\* Variant: start or stop, then enable or disable
apply_service_changes_start_first(st, changes, i, declared, current, fail) ==
    IF i > Len(changes) \/ st.err THEN st
    ELSE LET name == changes[i]
             desired == declared[name]
             s1 == IF current[name].active = desired.started THEN st
                   ELSE LET s == run_command(st, IF desired.started THEN "start"
                                                 ELSE "stop", name, fail)
                        IN  IF s.err THEN s
                            ELSE [s EXCEPT !.units[name].active = desired.started]
             s2 == IF s1.err \/ current[name].enabled = desired.enabled THEN s1
                   ELSE LET s == run_command(s1, IF desired.enabled THEN "enable"
                                                 ELSE "disable", name, fail)
                        IN  IF s.err THEN s
                            ELSE [s EXCEPT !.units[name].enabled = desired.enabled]
         IN  apply_service_changes_start_first(s2, changes, i + 1, declared, current, fail)

RECURSIVE apply_service_changes(_, _, _, _, _, _)
\* for (name, desired, current): enable or disable, then start or stop
apply_service_changes(st, changes, i, declared, current, fail) ==
    IF i > Len(changes) \/ st.err THEN st
    ELSE LET name == changes[i]
             desired == declared[name]
             s1 == IF current[name].enabled = desired.enabled THEN st
                   ELSE LET s == run_command(st, IF desired.enabled THEN "enable"
                                                 ELSE "disable", name, fail)
                        IN  IF s.err THEN s
                            ELSE [s EXCEPT !.units[name].enabled = desired.enabled]
             s2 == IF s1.err \/ current[name].active = desired.started THEN s1
                   ELSE LET s == run_command(s1, IF desired.started THEN "start"
                                                 ELSE "stop", name, fail)
                        IN  IF s.err THEN s
                            ELSE [s EXCEPT !.units[name].active = desired.started]
         IN  apply_service_changes(s2, changes, i + 1, declared, current, fail)

sync_services_bidirectional(declared, current, st, yes, no, fail) ==
    LET undeclared ==
            InOrder(UnitOrder,
                    {n \in DOMAIN current :
                        /\ current[n].exists /\ ~current[n].is_custom
                        /\ n \notin DOMAIN declared
                        /\ (current[n].enabled \/ current[n].active)})
        discovered == [i \in 1..Len(undeclared) |-> <<undeclared[i], current[undeclared[i]]>>]
        to_change ==
            InOrder(UnitOrder,
                    {n \in DOMAIN declared \cap DOMAIN current :
                        \/ current[n].enabled # declared[n].enabled
                        \/ current[n].active # declared[n].started})
        s0 == [st EXCEPT !.plan = @ \o Classify_as(Range(undeclared), UnitOrder, "Undeclared")
                                    \o Classify_as(Range(to_change), UnitOrder, "Modify")]
        S1 == IF undeclared = <<>> THEN {s0}
              ELSE Then(Ask(s0, "add_services", Range(undeclared), yes, no),
                     LAMBDA s : IF Answer(s)
                                THEN {[s EXCEPT !.toml =
                                         update_services_config_with_discovered(
                                             @, discovered)]}
                                ELSE {s})
    IN  IF to_change = <<>> THEN S1
        ELSE Then(Then(S1, LAMBDA s : Ask(s, "apply_service_changes", Range(to_change),
                                          yes, no)),
               LAMBDA s : IF Answer(s)
                          THEN {apply_service_changes(s, to_change, 1, declared,
                                                      current, fail)}
                          ELSE {s})

\* The thread after sync_custom_services ran from where `s` stood.
AfterCustomServices(s, c) ==
    [s EXCEPT !.units = c.units, !.state = c.state, !.file = c.file,
              !.calls = @ \o [i \in 1..Len(c.calls) |->
                                [c.calls[i] EXCEPT !.prompts = @ + Len(s.asked)]],
              !.asked = @ \o c.asked, !.plan = @ \o c.plan,
              !.err = c.err, !.cancelled = c.cancelled]

\* The unit <app>-autostart.service of an application that is enabled: it
\* is to be enabled and started.
generate_application_service(app_name, config) ==
    IF ~config.enabled THEN None
    ELSE Some([name |-> app_name \o "-autostart",
               service_definition |-> <<"ExecStart=", app_name>>,
               timer_definition |-> None, enabled |-> TRUE, started |-> TRUE])

\* The applications become custom services of the user scope.
sync_application_autostart(applications, units, file, yes, no, fail) ==
    LET enabled == {n \in DOMAIN applications :
                       generate_application_service(n, applications[n]) # None}
        names == InOrder(ServiceOrder, {n \o "-autostart" : n \in enabled})
        app_services ==
            [i \in 1..Len(names) |->
                LET n == CHOOSE m \in enabled : m \o "-autostart" = names[i]
                IN  generate_application_service(n, applications[n])[1]]
        st0 == [units |-> units, state |-> file, file |-> file, calls |-> <<>>,
                asked |-> <<>>, plan |-> <<>>, err |-> FALSE, cancelled |-> FALSE]
    IN  IF app_services = <<>> THEN {st0}
        ELSE sync_custom_services(app_services, "User", units, file, yes, no, fail)

\* sync_system_services / sync_user_services
sync_scope_services(toml, units, file, scope, yes, no, fail) ==
    LET config == unwrap_or(load_services_config(toml, scope), EmptyServicesConfig)
        declared == unwrap_or(config.services, EmptyMap)
        current == get_current_services(units, file, scope)
        st0 == [units |-> units, toml |-> toml, state |-> file, file |-> file,
                calls |-> <<>>, asked |-> <<>>, plan |-> <<>>,
                err |-> FALSE, cancelled |-> FALSE]
        S1 == sync_services_bidirectional(declared, current, st0, yes, no, fail)
        S2 == IF config.custom_services = None THEN S1
              ELSE Then(S1, LAMBDA s :
                     {AfterCustomServices(s, c) :
                         c \in sync_custom_services(config.custom_services[1], scope,
                                                    s.units, s.file, yes, no, fail)})
    IN  IF config.applications = None THEN S2
        ELSE Then(S2, LAMBDA s :
               {AfterCustomServices(s, c) :
                   c \in sync_application_autostart(config.applications[1], s.units,
                                                    s.file, yes, no, fail)})

UnitFailPoints == {NoFail} \cup ({"enable", "start", "stop"} \X {"sshd"})

---------------------------------------------------------------------------
(* The read loop of ask_user_confirmation in interactive mode.  Standard   *)
(* input is a sequence of lines, a line a sequence of characters ending in *)
(* a newline.                                                              *)

UpperCaseLetters ==
    <<"A", "B", "C", "D", "E", "F", "G", "H", "I", "J", "K", "L", "M",
      "N", "O", "P", "Q", "R", "S", "T", "U", "V", "W", "X", "Y", "Z">>
LowerCaseLetters ==
    <<"a", "b", "c", "d", "e", "f", "g", "h", "i", "j", "k", "l", "m",
      "n", "o", "p", "q", "r", "s", "t", "u", "v", "w", "x", "y", "z">>

\* str::to_lowercase
to_lowercase(s) ==
    [i \in 1..Len(s) |->
        IF \E j \in 1..Len(UpperCaseLetters) : UpperCaseLetters[j] = s[i]
        THEN LowerCaseLetters[CHOOSE j \in 1..Len(UpperCaseLetters) :
                                  UpperCaseLetters[j] = s[i]]
        ELSE s[i]]

\* A variant that compares the trimmed line as typed.
match_answer_case_sensitive(input) ==
    LET answer == trim(input)
    IN  IF answer \in {<<"y">>, <<"y", "e", "s">>} THEN Some(TRUE)
        ELSE IF answer \in {<<"n">>, <<"n", "o">>} THEN Some(FALSE)
        ELSE None

\* match input.trim().to_lowercase().as_str() { "y" | "yes" => true,
\* "n" | "no" => false, _ => ask again }: None is "ask again".
match_answer(input) ==
    LET answer == to_lowercase(trim(input))
    IN  IF answer \in {<<"y">>, <<"y", "e", "s">>} THEN Some(TRUE)
        ELSE IF answer \in {<<"n">>, <<"n", "o">>} THEN Some(FALSE)
        ELSE None

\* The lines an operator types.
InputLines ==
    {<<"y", "\n">>, <<"Y", "\n">>, <<"y", "e", "s", "\n">>,
     <<" ", "Y", "e", "s", " ", "\n">>,
     <<"n", "\n">>, <<"N", "O", "\n">>,
     <<"\n">>, <<"m", "a", "y", "b", "e", "\n">>, <<"y", "n", "\n">>}
MaxLines == 2
Stdin == UNION {[1..n -> InputLines] : n \in 0..MaxLines}

---------------------------------------------------------------------------
(* main(): the domains of one run, one after the other.  A domain is read  *)
(* here through the steps at which it can fail: the live-system queries,   *)
(* the configuration and state files it loads, and the mutating commands   *)
(* it issues.  The environment of a run names the sections config.toml     *)
(* declares, whether the domains find work to do, and the steps that fail  *)
(* (a query that cannot run, a file that is there but cannot be parsed, a  *)
(* command that exits non-zero).  The log of a run is the sequence of      *)
(* [stage, event, what] it leaves, event being "start", "query", "load",   *)
(* "default", "state", "call", "err", "warn" or "end".                     *)

Event(stage, event, what) == [stage |-> stage, event |-> event, what |-> what]
Step(kind, what) == [kind |-> kind, what |-> what]

\* The optional sections and switches of config.toml
Sections ==
    {"hostname", "drives", "desktop", "rpm_fusion", "amd_gpu", "podman", "containers",
     "custom_services", "vpn", "winapps", "dotfiles", "custom_commands"}

\* `?` inside a stage: the first failing step ends the stage with its error;
\* a load that falls back to a default (unwrap_or_else) goes on.
RECURSIVE RunSteps(_, _, _)
RunSteps(stage, steps, faults) ==
    IF steps = <<>> THEN <<Event(stage, "end", "")>>
    ELSE LET s == Head(steps)
         IN  IF s.what \in faults
             THEN IF s.kind = "load_or_default"
                  THEN <<Event(stage, "default", s.what)>>
                          \o RunSteps(stage, Tail(steps), faults)
                  ELSE <<Event(stage, "err", s.what)>>
             ELSE <<Event(stage, IF s.kind = "load_or_default" THEN "load" ELSE s.kind,
                          s.what)>>
                     \o RunSteps(stage, Tail(steps), faults)

\* The commands a domain issues for the drift it finds
Work(env, what) == IF env.drift THEN <<Step("call", what)>> ELSE <<>>

\* sync_system_packages and the syncs of the Flatpak, pip, npm and cargo
\* lists: the installed set is queried, then the list file is loaded.
sync_packages_steps(env, query, file, install) ==
    <<Step("query", query), Step("load", file)>> \o Work(env, install)

\* One scope of sync_services: the services file falls back to an empty
\* configuration; the unit listing and the state file do not.
sync_scope_services_steps(env, file, listing, enable, install) ==
    <<Step("load_or_default", file), Step("query", listing)>>
        \o (IF file \in env.faults THEN <<>> ELSE Work(env, enable))
        \o (IF file \notin env.faults /\ "custom_services" \in env.declared
            THEN <<Step("state", "custom_services.json")>> \o Work(env, install)
            ELSE <<>>)

sync_services_steps(env) ==
    sync_scope_services_steps(env, "system-services.toml", "systemctl list-unit-files",
                              "systemctl enable", "install system unit")
        \o sync_scope_services_steps(env, "user-services.toml",
                                     "systemctl --user list-unit-files",
                                     "systemctl --user enable", "install user unit")

sync_users_and_groups_steps(env) ==
    <<Step("call", "backup"), Step("load", "users-groups.toml"),
      Step("state", "users_groups_state.json")>>
        \o Work(env, "groupadd")

\* The podman section of main(), manage_containers_smart at its end
podman_section_steps(env) ==
    <<Step("call", "enable podman.socket"), Step("query", "podman ps")>>
        \o (IF "containers" \in env.declared
            THEN <<Step("state", "container_state.json")>> \o Work(env, "podman create")
            ELSE <<>>)

MainOrder_users_before_services ==
    <<"config", "update", "hostname", "drives", "system_packages", "desktop",
      "rpm_fusion", "amd_gpu", "setup_flatpak", "flatpak", "pip", "npm", "cargo",
      "users_groups", "services", "containers", "vpn", "winapps", "dotfiles",
      "custom_commands">>

\* The stages of main() in the order of its text
MainOrder ==
    <<"config", "update", "hostname", "drives", "system_packages", "desktop",
      "rpm_fusion", "amd_gpu", "setup_flatpak", "flatpak", "pip", "npm", "cargo",
      "services", "users_groups", "containers", "vpn", "winapps", "dotfiles",
      "custom_commands">>

\* `if let Some(section) = &config.section`, `if config.system.enable_...`
Enabled(stage, env) ==
    CASE stage = "containers" -> "podman" \in env.declared
      [] stage \in Sections -> stage \in env.declared
      [] OTHER -> TRUE

StageSteps(stage, env) ==
    CASE stage = "config" -> <<Step("load", "config.toml")>>
      [] stage = "update" -> <<Step("call", "dnf update")>>
      [] stage = "hostname" ->
            <<Step("query", "hostnamectl")>> \o Work(env, "hostnamectl set-hostname")
      [] stage = "drives" -> Work(env, "mount")
      [] stage = "system_packages" ->
            sync_packages_steps(env, "dnf repoquery", "system-packages.toml",
                                "dnf install")
      [] stage = "desktop" -> Work(env, "dnf install desktop")
      [] stage = "rpm_fusion" -> Work(env, "dnf install rpmfusion")
      [] stage = "amd_gpu" -> Work(env, "dnf install mesa")
      [] stage = "setup_flatpak" -> <<Step("call", "dnf install flatpak")>>
      [] stage = "flatpak" ->
            sync_packages_steps(env, "flatpak list", "flatpak-packages.toml",
                                "flatpak install")
      [] stage = "pip" ->
            sync_packages_steps(env, "pip list", "pip-packages.toml", "pip install")
      [] stage = "npm" ->
            sync_packages_steps(env, "npm list", "npm-packages.toml", "npm install")
      [] stage = "cargo" ->
            sync_packages_steps(env, "cargo install --list", "cargo-packages.toml",
                                "cargo install")
      [] stage = "services" -> sync_services_steps(env)
      [] stage = "users_groups" -> sync_users_and_groups_steps(env)
      [] stage = "containers" -> podman_section_steps(env)
      [] stage = "vpn" -> Work(env, "nmcli")
      [] stage = "winapps" -> Work(env, "install winapps")
      [] stage = "dotfiles" -> Work(env, "link dotfiles")
      [] stage = "custom_commands" -> Work(env, "sh")

\* The stages whose error main() prints as a warning (unwrap_or_else); the
\* error of every other stage leaves main() through `?`.
Warned == {"flatpak", "pip", "npm", "cargo"}

RECURSIVE RunStages(_, _)
RunStages(stages, env) ==
    IF stages = <<>> THEN [log |-> <<>>, result |-> "ok"]
    ELSE LET stage == Head(stages)
             log == IF Enabled(stage, env)
                    THEN <<Event(stage, "start", "")>>
                            \o RunSteps(stage, StageSteps(stage, env), env.faults)
                    ELSE <<>>
             failed == log # <<>> /\ log[Len(log)].event = "err"
             rest == RunStages(Tail(stages), env)
         IN  IF failed /\ stage \notin Warned
             THEN [log |-> log, result |-> "err"]
             ELSE [log |-> (IF failed THEN log \o <<Event(stage, "warn", "")>> ELSE log)
                              \o rest.log,
                   result |-> rest.result]

main(env) == RunStages(MainOrder, env)

\* The steps that fail in the runs followed: the files that cannot be
\* parsed, the queries that cannot run, the commands that exit non-zero.
Faults ==
    {"config.toml", "system-packages.toml", "flatpak-packages.toml",
     "system-services.toml", "users-groups.toml",
     "container_state.json", "users_groups_state.json", "custom_services.json",
     "dnf repoquery", "flatpak list", "systemctl list-unit-files",
     "dnf install", "groupadd"}

\* The subsets of S with at most n elements
RECURSIVE SubsetsUpTo(_, _)
SubsetsUpTo(S, n) ==
    IF n = 0 THEN {{}}
    ELSE LET P == SubsetsUpTo(S, n - 1) IN P \cup {F \cup {a} : F \in P, a \in S}

---------------------------------------------------------------------------
(* parse_raw_flags_to_quadlet: the raw flags of a container, translated    *)
(* into lines of the [Container] section of its Quadlet file.  The raw     *)
(* string is the sequence of its words and of the white space between      *)
(* them; a line of the unit is [key, value].                               *)

FlagWords ==
    {"-p", "--publish", "-v", "-e", "--device", "--security-opt", "--shm-size",
     "--restart", "--cap-add", "$HOME/d:/d", "seccomp=unconfined", "--privileged"}
HomePath == "/home/u"

\* str::split_whitespace: the words, without the white space around them
split_whitespace(raw) == SelectSeq(raw, LAMBDA w : w \notin White_Space)

\* str::replace("$HOME", home_path) on the words of the model
replace_home(word) == IF word = "$HOME/d:/d" THEN "/home/u/d:/d" ELSE word
\* str::contains("seccomp") on the words of the model
contains_seccomp(word) == word = "seccomp=unconfined"

Line(key, value) == [key |-> key, value |-> value]

has_value_always(flags, i) == TRUE

\* `i + 1 < flags.len()`
has_value(flags, i) == i + 1 <= Len(flags)

\* The arms of the match and what each pushes for the value it is given
RecognizedFlags ==
    {"-p", "--publish", "-v", "--volume", "-e", "--env", "--device", "--security-opt",
     "--shm-size", "--restart", "--cap-add"}
Pushed(flag, value) ==
    CASE flag \in {"-p", "--publish"} -> <<Line("PublishPort", value)>>
      [] flag \in {"-v", "--volume"} -> <<Line("Volume", replace_home(value))>>
      [] flag \in {"-e", "--env"} -> <<Line("Environment", value)>>
      [] flag = "--device" -> <<Line("PodmanArgs", "--device=" \o value)>>
      [] flag = "--security-opt" ->
            IF contains_seccomp(value) THEN <<Line("SecurityLabelDisable", "true")>>
            ELSE <<>>
      [] flag = "--shm-size" -> <<Line("ShmSize", value)>>
      [] flag = "--restart" -> <<>>
      [] flag = "--cap-add" -> <<Line("AddCapability", value)>>

\* One turn of `while i < flags.len()`.  Indexing past the end of the
\* vector panics.
parse_raw_flags_step(st) ==
    LET flags == st.flags
        i == st.i
    IN  IF flags[i] \in RecognizedFlags
        THEN IF has_value(flags, i)
             THEN IF i + 1 > Len(flags) THEN [st EXCEPT !.panicked = TRUE]
                  ELSE [st EXCEPT !.content = @ \o Pushed(flags[i], flags[i + 1]),
                                  !.i = i + 2]
             ELSE [st EXCEPT !.i = i + 1]
        ELSE [st EXCEPT !.i = i + 1]

---------------------------------------------------------------------------
(* Custom commands: config.toml [custom_commands] lists the commands of    *)
(* every run and the run_once commands.  A command is the sequence of its  *)
(* characters.  executed_commands.json maps the hash of a run_once command *)
(* to its record.  The thread of a run is [calls, state, state_changed,    *)
(* file, err].                                                             *)

\* Sha256 over the trimmed command
generate_command_hash(command) == trim(command)

\* sh -c <command>: an error when the command exits with a failure
execute_single_command(st, command, fail) ==
    [st EXCEPT !.calls = Append(@, [command |-> command, ok |-> command # fail]),
               !.err = (command = fail)]

RECURSIVE ExecuteCommands(_, _, _, _)
\* for command in &config.commands { execute_single_command(command)?; }
ExecuteCommands(st, commands, i, fail) ==
    IF i > Len(commands) \/ st.err THEN st
    ELSE ExecuteCommands(execute_single_command(st, commands[i], fail),
                         commands, i + 1, fail)

RECURSIVE ExecuteRunOnce(_, _, _, _)
\* for command in run_once_commands { skipped when the state holds its
\* hash; execute_single_command(command)?; the record is inserted }
ExecuteRunOnce(st, run_once_commands, i, fail) ==
    IF i > Len(run_once_commands) \/ st.err THEN st
    ELSE LET command == run_once_commands[i]
             command_hash == generate_command_hash(command)
             s == execute_single_command(st, command, fail)
         IN  ExecuteRunOnce(
                 IF command_hash \in DOMAIN st.state THEN st
                 ELSE IF s.err THEN s
                 ELSE [s EXCEPT !.state = Insert(@, command_hash,
                                                 [original_command |-> command]),
                                !.state_changed = TRUE],
                 run_once_commands, i + 1, fail)

\* save_executed_commands_state
save_executed_commands_state(st) == [st EXCEPT !.file = st.state]

execute_custom_commands(config, file, fail) ==
    LET st0 == [calls |-> <<>>, state |-> file, state_changed |-> FALSE,
                file |-> file, err |-> FALSE]
        s1 == ExecuteCommands(st0, config.commands, 1, fail)
        s2 == IF s1.err \/ config.run_once = None THEN s1
              ELSE ExecuteRunOnce(s1, config.run_once[1], 1, fail)
    IN  IF config.commands = <<>> /\ unwrap_or(config.run_once, <<>>) = <<>> THEN st0
        ELSE IF s2.err \/ ~s2.state_changed THEN s2
        ELSE save_executed_commands_state(s2)

---------------------------------------------------------------------------
(* State machine                                                           *)

Domains ==
    {"classify", "prompt", "containers", "packages", "users_groups", "validation",
     "custom_services", "main", "services", "flags", "commands"}

\* The domains whose run is sync_users_and_groups: users and groups the
\* validators accept, and configurations they reject.
UsersGroupsDomains == {"users_groups", "validation"}

\* The domains a behaviour of which is a sequence of runs of the program.
RunDomains == Domains \ {"classify", "prompt", "main", "services", "flags", "commands"}

\* --yes / --no without the container overrides
YesNoArgs == {a \in Args : ~a.force_recreate /\ ~a.no_recreate}

NoRun ==
    /\ phase = "idle"
    /\ args = NoArgs
    /\ plan = <<>>
    /\ calls = <<>>
    /\ asked = <<>>
    /\ outcome = "none"
    /\ pre = None
    /\ settled = {}

NoFunction == fin = None /\ fout = None

NoContainers ==
    /\ podman_containers = <<>>
    /\ podman_ps = [n \in ContainerNames |-> "absent"]
    /\ container_state_file = EmptyMap

NoPackages ==
    /\ package_manager = "dnf"
    /\ packages_toml = <<>>
    /\ live_packages = {}

EmptyUsersGroupsState == [managed_users |-> EmptyMap, managed_groups |-> EmptyMap]

NoUsersGroups ==
    /\ users_groups_toml = [users |-> None, groups |-> None]
    /\ etc_passwd = EmptyMap
    /\ etc_group = EmptyMap
    /\ users_groups_state_file = EmptyUsersGroupsState

EmptyCustomServicesState == [system_services |-> EmptyMap, user_services |-> EmptyMap]

NoCustomServices ==
    /\ service_scope = "System"
    /\ declared_services = <<>>
    /\ systemd_units = EmptyMap
    /\ custom_services_state_file = EmptyCustomServicesState

\* determine_container_action on its own: a declared container, the prior
\* state (no record, or the record a previous run wrote for some descriptor),
\* the live container set and the command-line overrides.
InitClassify ==
    /\ domain = "classify"
    /\ fin \in [container : WebDescs,
                state : {EmptyMap} \cup {[n \in {"web"} |-> ContainerInfo(d)] : d \in WebDescs},
                existing_containers : {{}, {"web"}},
                args : {a \in Args : ~a.yes /\ ~a.no}]
    /\ fout = None
    /\ NoRun
    /\ NoContainers
    /\ NoPackages
    /\ NoUsersGroups
    /\ NoCustomServices

\* ask_user_confirmation in interactive mode on its own: the lines waiting
\* on standard input, and the lines the loop has read so far.
InitPrompt ==
    /\ domain = "prompt"
    /\ fin \in [stdin : Stdin, read : {<<>>}]
    /\ fout = None
    /\ NoRun
    /\ NoContainers
    /\ NoPackages
    /\ NoUsersGroups
    /\ NoCustomServices

\* A machine the engine has not touched yet: no state file, no labelled
\* container; containers made by hand may exist.
InitContainers ==
    /\ domain = "containers"
    /\ podman_containers \in PodmanConfigs
    /\ podman_ps \in [ContainerNames -> {"absent", "plain"}]
    /\ container_state_file = EmptyMap
    /\ NoRun
    /\ NoFunction
    /\ NoPackages
    /\ NoUsersGroups
    /\ NoCustomServices

\* Declared package lists: the file keeps its packages sorted once the
\* engine has written it.
PackageLists == {InOrder(PackageOrder, S) : S \in SUBSET PackageNames}
\* A Flatpak list may also name an application with its remote.
FlatpakLists == {InOrder(PackageOrder, S) : S \in SUBSET (PackageNames \cup {"flathub:vim"})}
DeclarableLists(manager) == IF manager = "flatpak" THEN FlatpakLists ELSE PackageLists

InitPackages ==
    /\ domain = "packages"
    /\ package_manager \in PackageManagers
    /\ packages_toml \in DeclarableLists(package_manager)
    /\ live_packages \in SUBSET PackageNames
    /\ NoRun
    /\ NoFunction
    /\ NoContainers
    /\ NoUsersGroups
    /\ NoCustomServices

\* Declared users and groups: alice asks for a shell, bob for nothing, dev
\* for a gid.
AliceConfigs == {[uid |-> None, shell |-> Some("/bin/zsh")]}
BobConfigs == {[uid |-> None, shell |-> None]}
DevConfigs == {[gid |-> Some(2001)]}
UsersSections ==
    {None, Some(EmptyMap)}
        \cup {Some([n \in {"alice"} |-> a]) : a \in AliceConfigs}
        \cup {Some([n \in {"alice", "bob"} |-> IF n = "alice" THEN a ELSE b]) :
                a \in AliceConfigs, b \in BobConfigs}
GroupsSections ==
    {None, Some(EmptyMap)} \cup {Some([n \in {"dev"} |-> d]) : d \in DevConfigs}
\* Configurations with a value or a name the validators reject: a valid new
\* uid with a shell that is not in /etc/shells, a uid below MIN_USER_UID next
\* to a valid user, a name outside the username regex, a gid below
\* MIN_GROUP_GID.
RejectedConfigs ==
    {[users |-> Some([n \in {"alice"} |->
                        [uid |-> Some(1005), shell |-> Some("/bin/fish")]]),
      groups |-> None],
     [users |-> Some([n \in {"alice", "bob"} |->
                        IF n = "alice" THEN [uid |-> Some(500), shell |-> None]
                        ELSE [uid |-> None, shell |-> None]]),
      groups |-> None],
     [users |-> Some([n \in {"Bob"} |-> [uid |-> None, shell |-> Some("/bin/zsh")]]),
      groups |-> None],
     [users |-> None,
      groups |-> Some([n \in {"dev"} |-> [gid |-> Some(500)]])]}
UsersGroupsConfigs == [users : UsersSections, groups : GroupsSections]

\* Accounts made by hand may exist, bob as a regular or as a system account
\* (uid 500); the engine has recorded nothing yet.
InitUsersGroups ==
    /\ domain = "users_groups"
    /\ users_groups_toml \in UsersGroupsConfigs
    /\ etc_passwd \in
          {[n \in S |-> [uid |-> NextFreeUid(n), shell |-> DefaultShell(n)]] :
              S \in SUBSET {"alice", "bob"}}
          \cup {[n \in S \cup {"bob"} |->
                    [uid |-> IF n = "bob" THEN 500 ELSE NextFreeUid(n),
                     shell |-> DefaultShell(n)]] : S \in SUBSET {"alice"}}
    /\ etc_group \in {[n \in S |-> [gid |-> NextFreeGid(n)]] : S \in SUBSET GroupNames}
    /\ users_groups_state_file = EmptyUsersGroupsState
    /\ NoRun
    /\ NoFunction
    /\ NoContainers
    /\ NoPackages
    /\ NoCustomServices

\* sync_users_and_groups on a configuration the validators reject; an
\* account whose name is outside the username regex may exist.
InitValidation ==
    /\ domain = "validation"
    /\ users_groups_toml \in RejectedConfigs
    /\ etc_passwd \in {[n \in S |-> [uid |-> NextFreeUid(n), shell |-> DefaultShell(n)]] :
                          S \in (SUBSET {"alice", "bob"}) \cup {{"Bob"}}}
    /\ etc_group \in {[n \in S |-> [gid |-> NextFreeGid(n)]] : S \in SUBSET GroupNames}
    /\ users_groups_state_file = EmptyUsersGroupsState
    /\ NoRun
    /\ NoFunction
    /\ NoContainers
    /\ NoPackages
    /\ NoCustomServices

BackupServices ==
    [name : {"backup"}, service_definition : Definitions, timer_definition : {None},
     enabled : {TRUE}, started : {TRUE}]
SyncService ==
    [name |-> "sync", service_definition |-> <<"a">>, timer_definition |-> None,
     enabled |-> TRUE, started |-> FALSE]
CustomServiceConfigs ==
    {<<>>, <<SyncService>>} \cup {<<b>> : b \in BackupServices}
                            \cup {<<b, SyncService>> : b \in BackupServices}

InitCustomServices ==
    /\ domain = "custom_services"
    /\ service_scope \in ServiceScopes
    /\ declared_services \in CustomServiceConfigs
    /\ systemd_units = EmptyMap
    /\ custom_services_state_file = EmptyCustomServicesState
    /\ NoRun
    /\ NoFunction
    /\ NoContainers
    /\ NoPackages
    /\ NoUsersGroups

MaxFaults == 2
MaxUndeclared == 1

\* main() on its own: the environment of a run.  At most two steps fail;
\* at most one section of config.toml is left out.
Environments ==
    [declared : {Sections \ U : U \in SubsetsUpTo(Sections, MaxUndeclared)},
     drift : BOOLEAN,
     faults : SubsetsUpTo(Faults, MaxFaults)]

InitMain ==
    /\ domain = "main"
    /\ fin \in Environments
    /\ fout = None
    /\ NoRun
    /\ NoContainers
    /\ NoPackages
    /\ NoUsersGroups
    /\ NoCustomServices

MaxEntries == 3

\* The services files the runs start from: no file, a [services] table, and
\* a [services] table before or after a [[custom_services]] table, with an
\* [applications] table or without; sshd is not declared, or declared
\* enabled and started, enabled only, or neither; firefox is to start at
\* login or not.
ServicesFiles ==
    LET S == {Table("services", e) :
                e \in {<<>>, <<Entry("sshd", TRUE, TRUE)>>, <<Entry("sshd", TRUE, FALSE)>>,
                       <<Entry("sshd", FALSE, FALSE)>>}}
        C == Table("custom_services", <<>>)
        A == {Table("applications", <<Entry("firefox", on, FALSE)>>) : on \in BOOLEAN}
    IN  {<<>>} \cup {<<t>> : t \in S} \cup {<<t, C>> : t \in S} \cup {<<C, t>> : t \in S}
               \cup {<<t, C, a>> : t \in S, a \in A} \cup {<<t, a>> : t \in S, a \in A}

\* The units of the scope: cups and sshd, each missing, enabled and running,
\* or disabled and stopped.
LiveUnits ==
    LET On == [definition |-> <<>>, enabled |-> TRUE, active |-> TRUE]
        Off == [definition |-> <<>>, enabled |-> FALSE, active |-> FALSE]
    IN  UNION {[S -> {On, Off}] : S \in SUBSET UnitNames}

\* sync_system_services or sync_user_services on its own.
InitServices ==
    /\ domain = "services"
    /\ fin \in [toml : ServicesFiles, units : LiveUnits,
                file : {EmptyCustomServicesState}, scope : ServiceScopes]
    /\ fout = None
    /\ NoRun
    /\ NoContainers
    /\ NoPackages
    /\ NoUsersGroups
    /\ NoCustomServices

MaxTokens == 3

RECURSIVE WordsUpTo(_)
WordsUpTo(n) ==
    IF n = 0 THEN {<<>>}
    ELSE LET W == WordsUpTo(n - 1)
         IN  W \cup {Append(w, t) : w \in {v \in W : Len(v) = n - 1}, t \in FlagWords}

RECURSIVE Spaced(_)
\* The words with white space before each and a newline at the end
Spaced(words) ==
    IF words = <<>> THEN <<"\n">> ELSE <<" ", Head(words)>> \o Spaced(Tail(words))

\* parse_raw_flags_to_quadlet on its own: raw flags of at most MaxTokens
\* words, the loop at its start.
InitFlags ==
    /\ domain = "flags"
    /\ \E words \in WordsUpTo(MaxTokens) :
          fin = [raw_flags |-> Spaced(words), flags |-> split_whitespace(Spaced(words)),
                 i |-> 1, content |-> <<>>, panicked |-> FALSE]
    /\ fout = None
    /\ NoRun
    /\ NoContainers
    /\ NoPackages
    /\ NoUsersGroups
    /\ NoCustomServices

MaxCommands == 2

\* The commands of the model: two commands, and the first one again with
\* white space around it.
CommandTexts == {<<"a">>, <<"b">>, <<" ", "a", "\n">>}
CommandLists == UNION {[1..n -> CommandTexts] : n \in 0..MaxCommands}

\* The custom commands on their own: nothing has been executed yet.
InitCommands ==
    /\ domain = "commands"
    /\ fin \in [config : [commands : {<<>>, <<<<"b">>>>},
                          run_once : {None} \cup {Some(l) : l \in CommandLists}],
                file : {EmptyMap}]
    /\ fout = None
    /\ NoRun
    /\ NoContainers
    /\ NoPackages
    /\ NoUsersGroups
    /\ NoCustomServices

Init ==
    \/ InitCommands
    \/ InitClassify
    \/ InitPrompt
    \/ InitContainers
    \/ InitPackages
    \/ InitUsersGroups
    \/ InitValidation
    \/ InitCustomServices
    \/ InitMain
    \/ InitServices
    \/ InitFlags

Classify ==
    /\ domain = "classify"
    /\ fout = None
    /\ fout' = Some(determine_container_action(fin.container, fin.state,
                                               fin.existing_containers, fin.args))
    /\ UNCHANGED <<domain, hvars, settled, fin, cvars, pvars, uvars, svars>>

\* One turn of the loop: the prompt is printed, a line is read and matched;
\* a recognised answer is returned, anything else starts the next turn.
ReadAnswer ==
    /\ domain = "prompt"
    /\ fout = None
    /\ fin.stdin # <<>>
    /\ fin' = [stdin |-> Tail(fin.stdin), read |-> Append(fin.read, Head(fin.stdin))]
    /\ fout' = match_answer(Head(fin.stdin))
    /\ UNCHANGED <<domain, hvars, settled, cvars, pvars, uvars, svars>>

\* Standard input is at its end: read_line leaves the buffer empty, which is
\* no answer, and the loop turns again.
EndOfInput ==
    /\ domain = "prompt"
    /\ fout = None
    /\ fin.stdin = <<>>
    /\ match_answer(<<>>) = None
    /\ UNCHANGED vars

\* One run of main() in the environment.
RunMain ==
    /\ domain = "main"
    /\ fout = None
    /\ fout' = Some(main(fin))
    /\ UNCHANGED <<domain, hvars, settled, fin, cvars, pvars, uvars, svars>>

\* One run of the custom commands; at most one command fails.
RunCommands ==
    /\ domain = "commands"
    /\ fout = None
    /\ \E fail \in {NoFail} \cup CommandTexts :
          fout' = Some(execute_custom_commands(fin.config, fin.file, fail))
    /\ UNCHANGED <<domain, hvars, settled, fin, cvars, pvars, uvars, svars>>

\* The process ends; the next run starts from the state file the last one
\* left.
NextCommandsRun ==
    /\ domain = "commands"
    /\ fout # None
    /\ fin' = [fin EXCEPT !.file = fout[1].file]
    /\ fout' = None
    /\ UNCHANGED <<domain, hvars, settled, cvars, pvars, uvars, svars>>

\* One run of the services of the scope.
RunServices ==
    /\ domain = "services"
    /\ fout = None
    /\ \E a \in YesNoArgs, fail \in UnitFailPoints :
       \E st \in sync_scope_services(fin.toml, fin.units, fin.file, fin.scope,
                                     a.yes, a.no, fail) :
          fout' = Some(st)
    /\ UNCHANGED <<domain, hvars, settled, fin, cvars, pvars, uvars, svars>>

\* The process ends; the next run starts from the file and the units the
\* last one left.
NextServicesRun ==
    /\ domain = "services"
    /\ fout # None
    /\ Len(fout[1].toml) > 0 =>
            \A i \in DOMAIN fout[1].toml : Len(fout[1].toml[i].entries) <= MaxEntries
    /\ fin' = [fin EXCEPT !.toml = fout[1].toml, !.units = fout[1].units,
                          !.file = fout[1].file]
    /\ fout' = None
    /\ UNCHANGED <<domain, hvars, settled, cvars, pvars, uvars, svars>>

\* One turn of the loop of parse_raw_flags_to_quadlet.
ParseFlag ==
    /\ domain = "flags"
    /\ fout = None
    /\ ~fin.panicked
    /\ fin.i <= Len(fin.flags)
    /\ fin' = parse_raw_flags_step(fin)
    /\ UNCHANGED <<domain, hvars, settled, fout, cvars, pvars, uvars, svars>>

\* The loop is over: Ok(()).
ParseDone ==
    /\ domain = "flags"
    /\ fout = None
    /\ ~fin.panicked
    /\ fin.i > Len(fin.flags)
    /\ fout' = Some("Ok")
    /\ UNCHANGED <<domain, hvars, settled, fin, cvars, pvars, uvars, svars>>

\* The operator's answers a run may read: one per orphan removal prompt and
\* one for "Proceed with container operations?".
OrphanAnswers(containers, ps) ==
    [{n \in ContainerNames : ps[n] = "managed" /\ n \notin DeclaredNames(containers)}
        -> BOOLEAN]

\* One run of the podman section of main().
RunContainers ==
    /\ domain = "containers"
    /\ phase = "idle"
    /\ \E a \in Args, fail \in ContainerFailPoints,
          answers \in OrphanAnswers(podman_containers, podman_ps) :
       \E proceed \in (IF a.yes \/ a.no THEN {FALSE} ELSE BOOLEAN) :
       \E st \in {podman_section(podman_containers, podman_ps,
                                 container_state_file, a, answers, proceed, fail)} :
          /\ podman_ps' = st.ps
          /\ container_state_file' = st.file
          /\ args' = a
          /\ plan' = st.plan
          /\ calls' = st.calls
          /\ asked' = st.asked
          /\ outcome' = Outcome(st)
          /\ pre' = [ps |-> podman_ps, file |-> container_state_file,
                     settled |-> settled]
          /\ settled' = IF Outcome(st) = "ok" THEN Applied(st.plan) ELSE {}
    /\ phase' = "ran"
    /\ UNCHANGED <<domain, fvars, podman_containers, pvars, uvars, svars>>

\* The operator edits the declared containers between two runs.
EditPodmanConfig ==
    /\ domain = "containers"
    /\ phase = "idle"
    /\ podman_containers' \in PodmanConfigs \ {podman_containers}
    /\ settled' = {}
    /\ UNCHANGED <<domain, hvars, fvars, podman_ps, container_state_file,
                   pvars, uvars, svars>>

\* One run of sync_system_packages or of sync_flatpak_packages from main().
RunPackages ==
    /\ domain = "packages"
    /\ phase = "idle"
    /\ \E a \in YesNoArgs, fail \in PackageFailPoints :
       \E st \in (IF package_manager = "dnf"
                  THEN sync_system_packages(live_packages, packages_toml,
                                            a.yes, a.no, fail)
                  ELSE sync_flatpak_packages(live_packages, packages_toml,
                                             a.yes, a.no, fail)) :
          /\ live_packages' = st.installed
          /\ packages_toml' = st.toml
          /\ args' = a
          /\ plan' = st.plan
          /\ calls' = st.calls
          /\ asked' = st.asked
          /\ outcome' = PackagesOutcome(package_manager, st)
          /\ pre' = [installed |-> live_packages, toml |-> packages_toml]
    /\ phase' = "ran"
    /\ UNCHANGED <<domain, settled, fvars, package_manager, cvars, uvars, svars>>

\* The operator edits the package list between two runs.
EditPackagesConfig ==
    /\ domain = "packages"
    /\ phase = "idle"
    /\ packages_toml' \in DeclarableLists(package_manager) \ {packages_toml}
    /\ UNCHANGED <<domain, hvars, settled, fvars, package_manager, live_packages,
                   cvars, uvars, svars>>

\* One run of sync_users_and_groups from main().
RunUsersGroups ==
    /\ domain \in UsersGroupsDomains
    /\ phase = "idle"
    /\ \E a \in YesNoArgs, fail \in UsersGroupsFailPoints, order \in UserOrders :
       \E st \in sync_users_and_groups(users_groups_toml, etc_passwd, etc_group,
                                       users_groups_state_file, a.yes, a.no, order, fail) :
          /\ users_groups_toml' = st.toml
          /\ etc_passwd' = st.passwd
          /\ etc_group' = st.group
          /\ users_groups_state_file' = st.file
          /\ args' = a
          /\ plan' = st.plan
          /\ calls' = st.calls
          /\ asked' = st.asked
          /\ outcome' = Outcome(st)
          /\ pre' = [toml |-> users_groups_toml, passwd |-> etc_passwd,
                     group |-> etc_group, file |-> users_groups_state_file]
    /\ phase' = "ran"
    /\ UNCHANGED <<domain, settled, fvars, cvars, pvars, svars>>

\* The operator edits config/users-groups.toml between two runs.
EditUsersGroupsConfig ==
    /\ domain = "users_groups"
    /\ phase = "idle"
    /\ users_groups_toml' \in UsersGroupsConfigs \ {users_groups_toml}
    /\ UNCHANGED <<domain, hvars, settled, fvars, etc_passwd, etc_group,
                   users_groups_state_file, cvars, pvars, svars>>

\* The operator replaces a rejected configuration by another one.
EditRejectedConfig ==
    /\ domain = "validation"
    /\ phase = "idle"
    /\ users_groups_toml' \in RejectedConfigs \ {users_groups_toml}
    /\ UNCHANGED <<domain, hvars, settled, fvars, etc_passwd, etc_group,
                   users_groups_state_file, cvars, pvars, svars>>

\* One run of sync_custom_services for the scope's declared custom services.
RunCustomServices ==
    /\ domain = "custom_services"
    /\ phase = "idle"
    /\ \E a \in YesNoArgs, fail \in ServiceFailPoints :
       \E st \in sync_custom_services(declared_services, service_scope, systemd_units,
                                      custom_services_state_file, a.yes, a.no, fail) :
          /\ systemd_units' = st.units
          /\ custom_services_state_file' = st.file
          /\ args' = a
          /\ plan' = st.plan
          /\ calls' = st.calls
          /\ asked' = st.asked
          /\ outcome' = Outcome(st)
          /\ pre' = [units |-> systemd_units, file |-> custom_services_state_file]
    /\ phase' = "ran"
    /\ UNCHANGED <<domain, settled, fvars, service_scope, declared_services,
                   cvars, pvars, uvars>>

\* The operator edits the declared custom services between two runs.
EditCustomServices ==
    /\ domain = "custom_services"
    /\ phase = "idle"
    /\ declared_services' \in CustomServiceConfigs \ {declared_services}
    /\ UNCHANGED <<domain, hvars, settled, fvars, service_scope, systemd_units,
                   custom_services_state_file, cvars, pvars, uvars>>

\* What a run of the domain starts from.
Snapshot ==
    CASE domain = "containers" ->
            [ps |-> podman_ps, file |-> container_state_file, settled |-> settled]
      [] domain = "packages" -> [installed |-> live_packages, toml |-> packages_toml]
      [] domain \in UsersGroupsDomains ->
            [toml |-> users_groups_toml, passwd |-> etc_passwd,
             group |-> etc_group, file |-> users_groups_state_file]
      [] domain = "custom_services" ->
            [units |-> systemd_units, file |-> custom_services_state_file]

\* A run started with --yes and --no: main() returns the error before it
\* reads a file, queries the system or issues a command.
FlagConflict ==
    /\ domain \in RunDomains
    /\ phase = "idle"
    /\ \E a \in ParsedArgs :
          /\ flag_conflict(a)
          /\ ~a.force_recreate /\ ~a.no_recreate
          /\ args' = a
    /\ plan' = <<>>
    /\ calls' = <<>>
    /\ asked' = <<>>
    /\ outcome' = "err"
    /\ pre' = Snapshot
    /\ settled' = {}
    /\ phase' = "ran"
    /\ UNCHANGED <<domain, fvars, cvars, pvars, uvars, svars>>

\* The process ends: its run-local values are gone.
ProcessExit ==
    /\ phase = "ran"
    /\ phase' = "idle"
    /\ args' = NoArgs
    /\ plan' = <<>>
    /\ calls' = <<>>
    /\ asked' = <<>>
    /\ outcome' = "none"
    /\ pre' = None
    /\ UNCHANGED <<domain, settled, fvars, cvars, pvars, uvars, svars>>

NextClassify == Classify
NextPrompt == ReadAnswer \/ EndOfInput
NextContainers == RunContainers \/ EditPodmanConfig \/ FlagConflict \/ ProcessExit
NextPackages == RunPackages \/ EditPackagesConfig \/ FlagConflict \/ ProcessExit
NextUsersGroups == RunUsersGroups \/ EditUsersGroupsConfig \/ FlagConflict \/ ProcessExit
NextValidation == RunUsersGroups \/ EditRejectedConfig \/ FlagConflict \/ ProcessExit
NextMain == RunMain
NextCommands == RunCommands \/ NextCommandsRun
NextFlags == ParseFlag \/ ParseDone
NextServices == RunServices \/ NextServicesRun
NextCustomServices == RunCustomServices \/ EditCustomServices \/ FlagConflict \/ ProcessExit
Next ==
    \/ Classify
    \/ RunCommands
    \/ NextCommandsRun
    \/ RunMain
    \/ ParseFlag
    \/ ParseDone
    \/ RunServices
    \/ NextServicesRun
    \/ ReadAnswer
    \/ EndOfInput
    \/ RunContainers
    \/ EditPodmanConfig
    \/ RunPackages
    \/ EditPackagesConfig
    \/ RunUsersGroups
    \/ EditUsersGroupsConfig
    \/ EditRejectedConfig
    \/ RunCustomServices
    \/ EditCustomServices
    \/ FlagConflict
    \/ ProcessExit

SpecClassify == InitClassify /\ [][NextClassify]_vars
SpecPrompt == InitPrompt /\ [][NextPrompt]_vars
SpecContainers == InitContainers /\ [][NextContainers]_vars
SpecPackages == InitPackages /\ [][NextPackages]_vars
SpecUsersGroups == InitUsersGroups /\ [][NextUsersGroups]_vars
SpecValidation == InitValidation /\ [][NextValidation]_vars
SpecCustomServices == InitCustomServices /\ [][NextCustomServices]_vars
SpecMain == InitMain /\ [][NextMain]_vars
SpecCommands == InitCommands /\ [][NextCommands]_vars
SpecFlags == InitFlags /\ [][NextFlags]_vars
\* The loop is the only thing the caller waits for: it takes its next turn.
SpecFlagsFair == SpecFlags /\ WF_vars(NextFlags)
SpecServices == InitServices /\ [][NextServices]_vars
Spec == Init /\ [][Next]_vars

---------------------------------------------------------------------------
(* Claims                                                                  *)

Classified == domain = "classify" /\ fout # None
NoOverride(a) == ~a.force_recreate /\ ~a.no_recreate

\* The attributes of a descriptor as the engine reads them (absent
\* raw_flags is "", absent autostart is false).
Attributes(c) ==
    [image |-> c.image, raw_flags |-> unwrap_or(c.raw_flags, ""),
     start_after_creation |-> c.start_after_creation,
     autostart |-> unwrap_or(c.autostart, FALSE)]

SingleAttributeChanged(old, new) ==
    /\ old.name = new.name
    /\ Cardinality({f \in DOMAIN Attributes(old) :
                        Attributes(old)[f] # Attributes(new)[f]}) = 1

\* The podman calls (rm, create, run) a run issued for a key, in order.
PodmanCalls(k) ==
    SelectSeq(calls, LAMBDA c : c.key = k /\ c.op \in {"rm", "create", "run"})

ContainersRan == domain = "containers" /\ phase = "ran"

\* C1: Idempotence. When a run completed successfully and the next run
\* follows with the configuration and the live system untouched (and without
\* CLI override), every key the first run created, updated or recreated is
\* classified Skip in the second run, which issues no podman rm/create/run
\* for it.
C1_Idempotence ==
    (ContainersRan /\ NoOverride(args)) =>
        \A k \in pre.settled :
            /\ \A i \in 1..Len(plan) : plan[i][1] = k => plan[i][2] = "Skip"
            /\ PodmanCalls(k) = <<>>

\* C2: Convergence. A declared container that exists and whose Managed
\* Record was written for a descriptor differing from the declared one in
\* exactly one attribute is classified Update or Recreate, never Skip (no
\* CLI override).
C2_Convergence ==
    (/\ Classified
     /\ NoOverride(fin.args)
     /\ fin.container.name \in fin.existing_containers
     /\ fin.container.name \in DOMAIN fin.state
     /\ SingleAttributeChanged(fin.state[fin.container.name].desc, fin.container))
        => fout[1] \in {"Update", "Recreate"}

C2_Witness ==
    /\ Classified
    /\ NoOverride(fin.args)
    /\ fin.container.name \in fin.existing_containers
    /\ fin.container.name \in DOMAIN fin.state
    /\ SingleAttributeChanged(fin.state[fin.container.name].desc, fin.container)
    /\ fin.state[fin.container.name].desc.autostart = Some(TRUE)
    /\ fin.container.autostart = None
    /\ fout = Some("Update")

\* C3: without CLI override the classification is the reference one: Create
\* when the container does not exist; Update when it exists and has no
\* Managed Record or a record whose config_hash differs from the hash of the
\* declared descriptor; Skip when it exists and the hashes are equal.
C3_ReferenceClassification ==
    (Classified /\ NoOverride(fin.args)) =>
        LET c == fin.container
            exists == c.name \in fin.existing_containers
            recorded == c.name \in DOMAIN fin.state
            same == recorded /\ fin.state[c.name].config_hash
                                    = generate_container_config_hash(c)
        IN  /\ ~exists => fout[1] = "Create"
            /\ (exists /\ ~same) => fout[1] = "Update"
            /\ (exists /\ same) => fout[1] = "Skip"

C3_Witness ==
    /\ Classified
    /\ NoOverride(fin.args)
    /\ fin.container.name \in fin.existing_containers
    /\ fin.state = EmptyMap
    /\ fout = Some("Update")

\* C4: with --no-recreate (and without --force-recreate) a declared
\* container that exists is classified Skip whatever the diff says, and a
\* declared container that does not exist is still classified Create.
C4_NoRecreate ==
    (Classified /\ fin.args.no_recreate /\ ~fin.args.force_recreate) =>
        IF fin.container.name \in fin.existing_containers
        THEN fout[1] = "Skip"
        ELSE fout[1] = "Create"

\* C5: with --force-recreate every declared container that exists is
\* classified Recreate and every one that does not exist Create, whatever
\* the prior state, the fingerprints and --no-recreate are.
C5_ForceRecreate ==
    (Classified /\ fin.args.force_recreate) =>
        IF fin.container.name \in fin.existing_containers
        THEN fout[1] = "Recreate"
        ELSE fout[1] = "Create"

C5_Witness ==
    /\ Classified
    /\ fin.args.force_recreate
    /\ fin.args.no_recreate
    /\ fin.container.name \in fin.existing_containers
    /\ fin.container.name \in DOMAIN fin.state
    /\ fin.state[fin.container.name].config_hash
            = generate_container_config_hash(fin.container)
    /\ fout = Some("Recreate")

\* C7: a run that applied an Update or Recreate issued, for that container,
\* exactly one remove followed by exactly one create (podman create or
\* podman run), and a Managed Record is written in a run only for a
\* container whose create call succeeded in that run; for every combination
\* of start_after_creation and autostart.
C7_RecreateIsRemoveThenCreate ==
    ContainersRan =>
        \A i \in 1..Len(plan) :
            LET k == plan[i][1]
                written == /\ k \in DOMAIN container_state_file
                           /\ (k \notin DOMAIN pre.file
                               \/ pre.file[k] # container_state_file[k])
            IN  plan[i][2] \in {"Update", "Recreate"} =>
                    /\ outcome = "ok" =>
                          /\ Len(PodmanCalls(k)) = 2
                          /\ PodmanCalls(k)[1].op = "rm"
                          /\ PodmanCalls(k)[2].op \in {"create", "run"}
                    /\ written =>
                          \E j \in 1..Len(calls) :
                              /\ calls[j].key = k
                              /\ calls[j].op \in {"create", "run"}
                              /\ calls[j].ok

---------------------------------------------------------------------------
(* Claims about a run of any domain, read off the state a run leaves:      *)
(* `pre` is what the run started from, the domain's variables are what it  *)
(* left behind.                                                            *)

Ran == phase = "ran" /\ domain \in RunDomains

SectionKeys(section) == IF section = None THEN {} ELSE DOMAIN section[1]

\* The keys the configuration read by the run declares.
Declared ==
    CASE domain = "containers" -> DeclaredNames(podman_containers)
      [] domain = "packages" -> Range(pre.toml)
      [] domain \in UsersGroupsDomains ->
            SectionKeys(pre.toml.users) \cup SectionKeys(pre.toml.groups)
      [] domain = "custom_services" ->
            {declared_services[i].name : i \in 1..Len(declared_services)}

\* The keys that had a Managed Record when the run started (the package
\* lists keep no state file).
Recorded ==
    CASE domain = "containers" -> DOMAIN pre.file
      [] domain = "packages" -> {}
      [] domain \in UsersGroupsDomains ->
            DOMAIN pre.file.managed_users \cup DOMAIN pre.file.managed_groups
      [] domain = "custom_services" -> DOMAIN state_map(pre.file, service_scope)

\* The keys present on the live system when the run started.
Live ==
    CASE domain = "containers" -> get_existing_containers(pre.ps)
      [] domain = "packages" -> pre.installed
      [] domain \in UsersGroupsDomains -> DOMAIN pre.passwd \cup DOMAIN pre.group
      [] domain = "custom_services" -> DOMAIN pre.units

\* The Managed Record the persisted state file holds for a key now
\* (None: no record).
PersistedRecord(k) ==
    CASE domain = "containers" ->
            IF k \in DOMAIN container_state_file
            THEN Some(container_state_file[k].config_hash) ELSE None
      [] domain = "packages" -> None
      [] domain \in UsersGroupsDomains ->
            IF k \in DOMAIN users_groups_state_file.managed_users
            THEN Some(users_groups_state_file.managed_users[k])
            ELSE IF k \in DOMAIN users_groups_state_file.managed_groups
            THEN Some(users_groups_state_file.managed_groups[k])
            ELSE None
      [] domain = "custom_services" ->
            IF k \in DOMAIN state_map(custom_services_state_file, service_scope)
            THEN Some(state_map(custom_services_state_file, service_scope)[k].content_hash)
            ELSE None

\* The Managed Record of what the run applied for a declared key: the
\* fingerprint of its declared descriptor, or its id on the live system.
NewRecord(k) ==
    CASE domain = "containers" ->
            Some(generate_container_config_hash(
                    CHOOSE c \in Range(podman_containers) : c.name = k))
      [] domain \in UsersGroupsDomains ->
            IF k \in UserNames THEN Some([uid |-> etc_passwd[k].uid])
            ELSE Some([gid |-> etc_group[k].gid])
      [] domain = "custom_services" ->
            LET service == CHOOSE c \in Range(declared_services) : c.name = k
            IN  Some(generate_service_hash(service.service_definition,
                                           service.timer_definition))

\* Applier calls that create or change a resource, and those that delete one.
ApplyOps == {"create", "run", "useradd", "usermod", "groupadd", "groupmod", "mv", "write"}
DeleteOps == {"rm", "userdel", "userdel -r", "groupdel", "remove", "remove_file"}

\* The confirmations of the orphan Delete path, and those by which the
\* operator chooses the deletion of undeclared resources.
OrphanPrompts ==
    {"remove_orphan", "delete_orphaned_groups", "delete_orphaned_users",
     "remove_orphaned_services"}

DeleteCalls(k) == {i \in 1..Len(calls) : calls[i].key = k /\ calls[i].op \in DeleteOps}

\* The run applied key k: an apply call for it succeeded and none of its
\* calls failed.
AppliedOk(k) ==
    /\ \E i \in 1..Len(calls) : calls[i].key = k /\ calls[i].op \in ApplyOps /\ calls[i].ok
    /\ \A i \in 1..Len(calls) : calls[i].key = k => calls[i].ok

\* A later applier call, for another key, failed and ended the run.
FailedAfter(k) ==
    \E i, j \in 1..Len(calls) :
        /\ i < j
        /\ calls[i].key = k /\ calls[i].op \in ApplyOps
        /\ calls[j].key \notin {k, ""} /\ ~calls[j].ok
        /\ calls[j].op \in ApplyOps
        /\ outcome = "err"

\* C6: partial-run state consistency. When a run applied key A (its applier
\* call succeeded) and a later applier call for another key B failed in the
\* same run, the state file persisted after the run holds the new Managed
\* Record of A.
C6_PartialRunStateConsistency ==
    (Ran /\ domain \in {"containers", "custom_services"} \cup UsersGroupsDomains) =>
        \A k \in Declared :
            (AppliedOk(k) /\ FailedAfter(k)) => PersistedRecord(k) = NewRecord(k)

\* C8: orphan gating. In every domain a delete call for a key that has a
\* Managed Record and is not declared is issued only after a confirmation
\* about that deletion was resolved to true earlier in the same run; when
\* the confirmation resolves to false no delete call is issued for the key
\* and its Managed Record is kept.
C8_OrphanGating ==
    Ran =>
        \A k \in Recorded \ Declared :
            /\ \A i \in DeleteCalls(k) :
                  \E j \in 1..calls[i].prompts :
                      /\ asked[j].prompt \in OrphanPrompts
                      /\ k \in asked[j].keys
                      /\ asked[j].answer
            /\ \A j \in 1..Len(asked) :
                  (asked[j].prompt \in OrphanPrompts /\ k \in asked[j].keys
                   /\ ~asked[j].answer)
                    => (DeleteCalls(k) = {} /\ PersistedRecord(k) # None)

\* An orphaned user is deleted after "Delete these users from the system?"
\* was answered yes by the operator.
C8_Witness ==
    /\ Ran
    /\ domain = "users_groups"
    /\ \E k \in (Recorded \ Declared) \cap UserNames :
          \E i \in DeleteCalls(k) :
              /\ calls[i].ok
              /\ \E j \in 1..calls[i].prompts :
                    /\ asked[j].prompt = "delete_orphaned_users"
                    /\ k \in asked[j].keys
                    /\ asked[j].blocked
                    /\ asked[j].answer

\* C9: orphan isolation. A resource that is on the live system, is not
\* declared and has no Managed Record is never put before the orphan Delete
\* path: no orphan confirmation of the run is about it.
C9_OrphanIsolation ==
    Ran =>
        \A k \in (Live \ Declared) \ Recorded :
            \A j \in 1..Len(asked) :
                asked[j].prompt \in OrphanPrompts => k \notin asked[j].keys

\* The operator, asked in this run, chose the deletion of k before call i.
DeletionChosen(k, i) ==
    \E j \in 1..calls[i].prompts :
        /\ k \in asked[j].keys
        /\ asked[j].blocked
        /\ \/ asked[j].prompt = "keep" /\ ~asked[j].answer
           \/ asked[j].prompt \in {"delete_undeclared_users", "delete_undeclared_groups"}
              /\ asked[j].answer

\* C10: undeclared default-skip. In the package lists and in users and
\* groups, a resource that is on the live system, is not declared and has no
\* Managed Record gets a remove/delete call only when the operator chose its
\* deletion in that run; in a run with --no it gets none.
C10_UndeclaredDefaultSkip ==
    (Ran /\ domain \in {"packages"} \cup UsersGroupsDomains) =>
        \A k \in (Live \ Declared) \ Recorded :
            \A i \in DeleteCalls(k) : ~args.no /\ DeletionChosen(k, i)

---------------------------------------------------------------------------
(* Claims about the Managed Records of users, groups, services and         *)
(* containers.                                                             *)

\* The operator (or --yes) chose "1. Add to config" for k in this run.
AdoptedInRun(k) ==
    \E j \in 1..Len(asked) :
        /\ asked[j].prompt \in {"undeclared_users", "undeclared_groups"}
        /\ k \in asked[j].keys
        /\ asked[j].choice = "1"

\* C11: no silent adoption. In every run, a user or group that is on the
\* live system, is not in the configuration the run read and had no Managed
\* Record when the run started has no Managed Record in the state the run
\* leaves: a record is only ever written for a key of the declared
\* configuration, so a key that never was declared or recorded never gets
\* one, whatever the sequence of runs.
C11_NoSilentAdoption ==
    (Ran /\ domain \in UsersGroupsDomains) =>
        \A k \in (Live \ Declared) \ Recorded : PersistedRecord(k) = None

\* A run saved a new record for a declared user while an undeclared user,
\* which the operator chose to add to the configuration, got none.
C11_Witness ==
    /\ Ran
    /\ domain = "users_groups"
    /\ outcome = "ok"
    /\ users_groups_state_file # pre.file
    /\ \E k \in ((Live \ Declared) \ Recorded) \cap UserNames :
          /\ AdoptedInRun(k)
          /\ PersistedRecord(k) = None

\* C12: a Managed Record is created only in a run that applied an action for
\* the key or adopted it: a declared user or group that was already on the
\* live system and for which the run issued no successful create or modify
\* call (no change needed, or the change declined) has no Managed Record
\* after the run unless it had one before.
C12_RecordOnlyWhenApplied ==
    (Ran /\ domain \in UsersGroupsDomains) =>
        \A k \in (Declared \cap Live) \ Recorded :
            (~AdoptedInRun(k)
             /\ ~\E i \in 1..Len(calls) :
                    calls[i].key = k /\ calls[i].op \in ApplyOps /\ calls[i].ok)
                => PersistedRecord(k) = None

\* The sweeper deleted the orphan k: a delete call for it succeeded after
\* the orphan confirmation about it resolved to true.
OrphanDeleted(k) ==
    \E i \in DeleteCalls(k) :
        /\ calls[i].ok
        /\ \E j \in 1..calls[i].prompts :
              /\ asked[j].prompt \in OrphanPrompts
              /\ k \in asked[j].keys
              /\ asked[j].answer

\* C13: after the sweeper deleted an orphan successfully, the state
\* persisted at the end of the run holds no Managed Record for its key.
C13_OrphanRecordRemoved ==
    Ran =>
        \A k \in Recorded \ Declared :
            OrphanDeleted(k) => PersistedRecord(k) = None

---------------------------------------------------------------------------
(* Claims about validation in users and groups.                            *)

\* The user or group section entry the run read for k (None: not declared).
DeclaredConfig(k) ==
    IF pre.toml.users # None /\ k \in DOMAIN pre.toml.users[1]
    THEN Some(pre.toml.users[1][k])
    ELSE IF pre.toml.groups # None /\ k \in DOMAIN pre.toml.groups[1]
    THEN Some(pre.toml.groups[1][k])
    ELSE None

UidOutOfRange(k) ==
    /\ k \in UserNames
    /\ DeclaredConfig(k) # None
    /\ DeclaredConfig(k)[1].uid # None
    /\ ~validate_uid(DeclaredConfig(k)[1].uid[1])

ShellInvalid(k) ==
    /\ k \in UserNames
    /\ DeclaredConfig(k) # None
    /\ DeclaredConfig(k)[1].shell # None
    /\ ~validate_shell(DeclaredConfig(k)[1].shell[1])

GidOutOfRange(k) ==
    /\ k \in GroupNames
    /\ DeclaredConfig(k) # None
    /\ DeclaredConfig(k)[1].gid # None
    /\ ~validate_gid(DeclaredConfig(k)[1].gid[1])

\* The external commands of the run that create, change or delete k.
Mutations(k) ==
    {i \in 1..Len(calls) : calls[i].key = k /\ calls[i].op \in ApplyOps \cup DeleteOps}

\* C14: validation gating. For a user whose name is outside the username
\* regex (or longer than 32 characters), or whose declared uid is outside
\* 1000..60000, a run issues no useradd, usermod or userdel.
C14_ValidationGating ==
    (Ran /\ domain \in UsersGroupsDomains) =>
        \A k \in UserNames :
            (~validate_username(k) \/ UidOutOfRange(k)) => Mutations(k) = {}

\* C15: validation precedes every mutation of the resource. For a declared
\* user or group one of whose declared attributes fails validation (uid or
\* gid outside 1000..60000, shell not in /etc/shells) a run issues no
\* mutating command: the resource is never left partially modified.
C15_ValidationBeforeMutation ==
    (Ran /\ domain \in UsersGroupsDomains) =>
        \A k \in Declared :
            (UidOutOfRange(k) \/ ShellInvalid(k) \/ GidOutOfRange(k))
                => Mutations(k) = {}

\* The operator (or --yes) confirmed the create or modify batch k is part of.
BatchConfirmed(k) ==
    \E j \in 1..Len(asked) :
        /\ asked[j].prompt \in {"create_users", "modify_users",
                                 "create_groups", "modify_groups"}
        /\ k \in asked[j].keys
        /\ asked[j].answer

\* C16: per-key validation failure. When a declared user or group of a
\* confirmed create or modify batch fails validation and no command of the
\* run failed, the run is not aborted and the valid keys of the same batch
\* had their create or modify command issued.
C16_ValidationFailureIsPerKey ==
    (Ran /\ domain \in UsersGroupsDomains) =>
        \A k \in Declared :
            ( /\ BatchConfirmed(k)
              /\ ~validate_username(k) \/ UidOutOfRange(k) \/ ShellInvalid(k)
                    \/ GidOutOfRange(k)
              /\ \A i \in 1..Len(calls) : calls[i].ok )
            => /\ outcome # "err"
               /\ \A j \in 1..Len(asked), other \in Declared \ {k} :
                     ( /\ asked[j].prompt \in {"create_users", "modify_users",
                                                "create_groups", "modify_groups"}
                       /\ {k, other} \subseteq asked[j].keys
                       /\ validate_username(other)
                       /\ ~UidOutOfRange(other) /\ ~ShellInvalid(other)
                       /\ ~GidOutOfRange(other) )
                     => Mutations(other) # {}

---------------------------------------------------------------------------
(* Claims about the confirmation mode of a run.                            *)

\* C17: the confirmation mode is fixed for the whole run. In a run started
\* with --yes every confirmation resolves to true, in a run started with
\* --no every confirmation resolves to false, and in both no confirmation
\* reads the answer from standard input.
C17_ConfirmationModeFixed ==
    Ran =>
        /\ args.yes =>
              \A j \in 1..Len(asked) : asked[j].answer /\ ~asked[j].blocked
        /\ args.no =>
              \A j \in 1..Len(asked) : ~asked[j].answer /\ ~asked[j].blocked

\* The run left the domain as it found it.
Untouched ==
    CASE domain = "containers" ->
            podman_ps = pre.ps /\ container_state_file = pre.file
      [] domain = "packages" ->
            live_packages = pre.installed /\ packages_toml = pre.toml
      [] domain \in UsersGroupsDomains ->
            /\ users_groups_toml = pre.toml
            /\ etc_passwd = pre.passwd
            /\ etc_group = pre.group
            /\ users_groups_state_file = pre.file
      [] domain = "custom_services" ->
            systemd_units = pre.units /\ custom_services_state_file = pre.file

\* C18: a run started with both --yes and --no ends with an error, and it
\* classified nothing, asked nothing, issued no command and changed no file
\* and no resource.
C18_FlagConflictIsFatal ==
    (Ran /\ args.yes /\ args.no) =>
        /\ outcome = "err"
        /\ plan = <<>>
        /\ asked = <<>>
        /\ calls = <<>>
        /\ Untouched

\* A run with both flags on a machine where a declared package is missing:
\* without the conflict the run would have installed it.
C18_Witness ==
    /\ Ran
    /\ args.yes /\ args.no
    /\ domain = "packages"
    /\ Range(packages_toml) \ live_packages # {}

---------------------------------------------------------------------------
(* Claims about the read loop of ask_user_confirmation.                    *)

Yes_Answers == {<<"y">>, <<"y", "e", "s">>}
No_Answers == {<<"n">>, <<"n", "o">>}
Recognised(line) == to_lowercase(trim(line)) \in Yes_Answers \cup No_Answers

\* C19: in interactive mode ask_user_confirmation returns true only when
\* the last line read, trimmed and lower-cased, is y or yes, false only when
\* it is n or no; every line read before was none of the four, and as long
\* as no such line has been read the function has not returned.
C19_InteractiveLoop ==
    domain = "prompt" =>
        LET read == fin.read
            n == Len(read)
        IN  /\ \A i \in 1..(n - 1) : ~Recognised(read[i])
            /\ fout = None => (n >= 1 => ~Recognised(read[n]))
            /\ fout = Some(TRUE) =>
                  n >= 1 /\ to_lowercase(trim(read[n])) \in Yes_Answers
            /\ fout = Some(FALSE) =>
                  n >= 1 /\ to_lowercase(trim(read[n])) \in No_Answers

\* The loop asked again after an unrecognised line and then returned true on
\* a line that is "yes" only once trimmed and lower-cased.
C19_Witness ==
    /\ domain = "prompt"
    /\ fout = Some(TRUE)
    /\ Len(fin.read) = 2
    /\ fin.read[2] = <<" ", "Y", "e", "s", " ", "\n">>

---------------------------------------------------------------------------
(* Claims about the errors of external commands.                           *)

\* C20: ApplyError propagation. Whenever an external mutating command of a
\* run exits non-zero, it is the last command the domain issues and the
\* process ends with an error (a non-zero exit status); this holds for the
\* Flatpak list as for the system packages.
C20_ApplyErrorPropagation ==
    Ran =>
        \A i \in 1..Len(calls) :
            ~calls[i].ok => (i = Len(calls) /\ outcome = "err")

---------------------------------------------------------------------------
(* Claims about main(): the order of the domains and the errors that end   *)
(* a run.  fin is the environment of the run, fout what the run left.      *)

MainRan == domain = "main" /\ fout # None
Log == fout[1].log
Result == fout[1].result
Queries == {"dnf repoquery", "flatpak list", "systemctl list-unit-files"}
StateFiles == {"container_state.json", "users_groups_state.json", "custom_services.json"}
ConfigFiles ==
    {"config.toml", "system-packages.toml", "flatpak-packages.toml",
     "system-services.toml", "users-groups.toml"}
FailedAt(i, whats) == Log[i].event = "err" /\ Log[i].what \in whats
Recovered(i) ==
    /\ i < Len(Log)
    /\ Log[i + 1].stage = Log[i].stage
    /\ Log[i + 1].event = "warn"
    /\ \E j \in DOMAIN Log : j > i + 1 /\ Log[j].event = "start"

\* C21: a failed live-system query is followed by a warning of its domain,
\* and the domains after it are still run.
C21_SnapshotErrorRecovery ==
    MainRan => \A i \in DOMAIN Log : FailedAt(i, Queries) => Recovered(i)

\* C22: a state file that is there but cannot be parsed never ends the
\* domain that loads it: no run stops with the error of a state file.
C22_StateIOErrorRecovery ==
    MainRan => \A i \in DOMAIN Log : ~FailedAt(i, StateFiles)

\* C23: a run whose configuration holds a malformed file ends with an error
\* and has issued no mutating command.
C23_ConfigErrorIsFatalFirst ==
    MainRan /\ fin.faults \cap ConfigFiles # {} =>
        /\ Result = "err"
        /\ \A i \in DOMAIN Log : Log[i].event # "call"

\* The order of the domains the specification gives
DomainOrder ==
    <<"drives", "system_packages", "desktop", "flatpak", "services", "users_groups",
      "containers", "vpn", "dotfiles", "custom_commands">>
DomainOf(stage) == IF stage = "setup_flatpak" THEN "flatpak" ELSE stage
Ordered(e) == DomainOf(e.stage) \in Range(DomainOrder)
Position(e) == CHOOSE p \in DOMAIN DomainOrder : DomainOrder[p] = DomainOf(e.stage)

\* C24: the events of the domains follow the fixed order, a domain starts
\* only after the domain before it has finished, and the error that ends a
\* run is the last event of the run.
C24_DomainsInOrder ==
    MainRan =>
        LET events == SelectSeq(Log, Ordered)
        IN  /\ \A i \in 1..(Len(events) - 1) :
                  /\ Position(events[i]) <= Position(events[i + 1])
                  /\ events[i].stage # events[i + 1].stage =>
                        /\ events[i].event \in {"end", "err", "warn"}
                        /\ events[i + 1].event = "start"
            /\ Result = "err" =>
                  /\ Log[Len(Log)].event = "err"
                  /\ \A i \in 1..(Len(Log) - 1) :
                        Log[i].event = "err" => Log[i + 1].event = "warn"

\* A run the users and groups domain ends with an error, after the domains
\* before it issued their commands.
C24_Witness ==
    /\ MainRan
    /\ Result = "err"
    /\ Log[Len(Log)].stage = "users_groups"
    /\ \E i, j \in DOMAIN Log :
          /\ Log[i].stage = "system_packages" /\ Log[i].event = "call"
          /\ Log[j].stage = "services" /\ Log[j].event = "call"

---------------------------------------------------------------------------
(* Claims about the order of the commands of a run.                        *)

\* C25: in a run of users and groups every groupadd is issued before every
\* useradd.
C25_GroupsBeforeUsers ==
    domain \in UsersGroupsDomains /\ phase = "ran" =>
        \A i, j \in DOMAIN calls :
            calls[i].op = "groupadd" /\ calls[j].op = "useradd" => i < j

\* A run that created a group and a user.
C25_Witness ==
    /\ domain = "users_groups"
    /\ phase = "ran"
    /\ outcome = "ok"
    /\ \E i, j \in DOMAIN calls :
          /\ calls[i].op = "groupadd" /\ calls[i].ok
          /\ calls[j].op = "useradd" /\ calls[j].ok

---------------------------------------------------------------------------
(* Claims about the package lists.                                         *)

PackagesRan == domain = "packages" /\ phase = "ran"
DeclaredPackages == Range(pre.toml)
InstalledPackages == pre.installed
Requested == {plan[i][1] : i \in {j \in DOMAIN plan : plan[j][2] = "Install"}}
Prompted == UNION {asked[i].keys : i \in {j \in DOMAIN asked : asked[j].prompt = "keep"}}

\* C26: a package sync requests the installation of exactly the declared
\* entries that the manager does not report as installed, and asks the
\* keep-or-remove question for exactly the installed packages that are not
\* declared, once each; every install command comes from a requested entry
\* and every remove command names an installed, undeclared package; the
\* system package sync issues no command for a package that is declared and
\* installed, and every sync leaves such a package installed.
C26_PackageDiff ==
    PackagesRan /\ ~flag_conflict(args) =>
        /\ Requested = DeclaredPackages \ InstalledPackages
        /\ \A i \in DOMAIN calls :
              /\ package_manager = "dnf" =>
                    calls[i].key \notin DeclaredPackages \cap InstalledPackages
              /\ calls[i].op = "install" /\ calls[i].key # "" =>
                    calls[i].key \in {parse_flatpak_package(p)[2] :
                                        p \in DeclaredPackages \ InstalledPackages}
              /\ calls[i].op = "remove" =>
                    calls[i].key \in InstalledPackages \ DeclaredPackages
        /\ DeclaredPackages \cap InstalledPackages \subseteq live_packages
        /\ Prompted = InstalledPackages \ DeclaredPackages
        /\ \A i, j \in DOMAIN asked : asked[i].keys = asked[j].keys => i = j

\* D = {vim, htop}, I = {htop, git} through dnf: vim is installed, git is
\* asked about, htop is left alone.
C26_Witness ==
    /\ PackagesRan
    /\ package_manager = "dnf"
    /\ outcome = "ok"
    /\ DeclaredPackages = {"vim", "htop"}
    /\ InstalledPackages = {"htop", "git"}
    /\ "vim" \in live_packages
    /\ \E i \in DOMAIN asked : asked[i].keys = {"git"}

---------------------------------------------------------------------------
(* Claims about adoption.  The run that follows a run is the program       *)
(* applied to the configuration, the live system and the state file the    *)
(* run left, whatever the flags, the answers and the failures.             *)

ServicesRan == domain = "services" /\ fout # None
UndeclaredPrompts ==
    {"keep", "add_services", "undeclared_users", "undeclared_groups"}

\* The keys the undeclared prompts of a run were about
PromptedAgain(st) ==
    UNION {st.asked[j].keys :
              j \in {i \in DOMAIN st.asked : st.asked[i].prompt \in UndeclaredPrompts}}

\* The keys the run just ended adopted into the configuration
AdoptedKeys ==
    CASE domain = "packages" /\ phase = "ran" /\ outcome = "ok" ->
            UNION {asked[j].keys :
                      j \in {i \in DOMAIN asked : asked[i].prompt = "keep" /\ asked[i].answer}}
      [] domain = "users_groups" /\ phase = "ran" /\ outcome = "ok" ->
            {k \in UserNames \cup GroupNames : AdoptedInRun(k)}
      [] ServicesRan /\ ~fout[1].err ->
            UNION {fout[1].asked[j].keys :
                      j \in {i \in DOMAIN fout[1].asked :
                                /\ fout[1].asked[i].prompt = "add_services"
                                /\ fout[1].asked[i].answer}}
      [] OTHER -> {}

\* The runs that can follow the run just ended, nothing else having changed
FollowingRuns ==
    CASE domain = "packages" ->
            UNION {IF package_manager = "dnf"
                   THEN sync_system_packages(live_packages, packages_toml,
                                             a.yes, a.no, fail)
                   ELSE sync_flatpak_packages(live_packages, packages_toml,
                                              a.yes, a.no, fail) :
                   a \in YesNoArgs, fail \in PackageFailPoints}
      [] domain = "users_groups" ->
            UNION {sync_users_and_groups(users_groups_toml, etc_passwd, etc_group,
                                         users_groups_state_file, a.yes, a.no,
                                         order, NoFail) :
                   a \in YesNoArgs, order \in UserOrders}
      [] domain = "services" ->
            UNION {sync_scope_services(fout[1].toml, fout[1].units, fout[1].file,
                                       fin.scope, a.yes, a.no, fail) :
                   a \in YesNoArgs, fail \in UnitFailPoints}

\* C27: adoption is idempotent. After a run that adopted a package, a
\* service, a user or a group into the configuration, no run that follows
\* it immediately raises the undeclared prompt for that key again.
C27_AdoptionIsIdempotent ==
    AdoptedKeys # {} =>
        \A st \in FollowingRuns : PromptedAgain(st) \cap AdoptedKeys = {}

---------------------------------------------------------------------------
(* Claims about the start of containers.                                   *)

\* The declared containers with start_after_creation = true and
\* autostart = true
SystemdStarted ==
    {podman_containers[i].name :
        i \in {j \in DOMAIN podman_containers :
                  /\ podman_containers[j].start_after_creation
                  /\ podman_containers[j].autostart = Some(TRUE)}}

\* C28: a run issues no podman run for a container declared with
\* start_after_creation = true and autostart = true.
C28_AutostartIsNotStartedAtOnce ==
    domain = "containers" /\ phase = "ran" =>
        \A i \in DOMAIN calls : calls[i].op = "run" => calls[i].key \notin SystemdStarted

\* A run that processed such a container (its record is new) and wrote its
\* Quadlet file.
C28_Witness ==
    /\ domain = "containers"
    /\ phase = "ran"
    /\ outcome = "ok"
    /\ "web" \in SystemdStarted
    /\ \E i \in DOMAIN plan : plan[i][1] = "web" /\ plan[i][2] \in {"Create", "Update"}
    /\ "web" \notin DOMAIN pre.file
    /\ "web" \in DOMAIN container_state_file
    /\ \E i \in DOMAIN calls : calls[i].op = "quadlet" /\ calls[i].key = "web"

---------------------------------------------------------------------------
(* Claims about parse_raw_flags_to_quadlet.                                *)

FlagsDone == domain = "flags" /\ fout = Some("Ok")

\* What one turn of the loop may do: a recognized flag followed by a word
\* takes that word and adds at most one line, built from that word, at the
\* end of the lines; a recognized flag at the end and a word that is not a
\* flag add nothing and are passed over.
TurnAsSpecified ==
    LET flags == fin.flags
        i == fin.i
        added == SubSeq(fin'.content, Len(fin.content) + 1, Len(fin'.content))
    IN  /\ fin'.flags = flags
        /\ SubSeq(fin'.content, 1, Len(fin.content)) = fin.content
        /\ IF flags[i] \in RecognizedFlags /\ i < Len(flags)
           THEN /\ fin'.i = i + 2
                /\ Len(added) <= 1
                /\ added # <<>> =>
                      \/ added[1].value \in {flags[i + 1], replace_home(flags[i + 1]),
                                              "--device=" \o flags[i + 1]}
                      \/ added[1] = Line("SecurityLabelDisable", "true")
           ELSE /\ fin'.i = i + 1
                /\ added = <<>>

---------------------------------------------------------------------------
(* Claims about what a run leaves of the declared configuration.           *)

\* The keys config/users-groups.toml declares now
DeclaredNow ==
    SectionKeys(users_groups_toml.users) \cup SectionKeys(users_groups_toml.groups)

\* C30: a run that adopted a user or a group into config/users-groups.toml
\* leaves every user and group declared that the file declared when the run
\* read it.
C30_AdoptionKeepsDeclared ==
    (Ran /\ domain \in UsersGroupsDomains
        /\ \E k \in UserNames \cup GroupNames : AdoptedInRun(k))
            => Declared \subseteq DeclaredNow

---------------------------------------------------------------------------
(* Claims about the orphan sweep and the detection of undeclared users and *)
(* groups in one run.                                                      *)

\* The run listed k among the undeclared users or groups it found.
ReportedUndeclared(k) ==
    \E j \in 1..Len(asked) :
        /\ asked[j].prompt \in {"undeclared_users", "undeclared_groups"}
        /\ k \in asked[j].keys

\* C31: a user or group that the orphan sweep deleted during a run is not
\* afterwards, in the same run, reported as an undeclared resource nor
\* adopted into the configuration.
C31_DeletedOrphanIsNotUndeclared ==
    (Ran /\ domain \in UsersGroupsDomains) =>
        \A k \in UserNames \cup GroupNames :
            OrphanDeleted(k) => ~ReportedUndeclared(k) /\ k \notin DeclaredNow

---------------------------------------------------------------------------
(* Claims about the custom services and the applications of the user       *)
(* scope.                                                                  *)

\* The configuration the run of the services read
ServicesConfig == unwrap_or(load_services_config(fin.toml, fin.scope), EmptyServicesConfig)

\* The custom services the user-services file declares, and the units of
\* the applications it enables
DeclaredUserServices ==
    (IF ServicesConfig.custom_services = None THEN {}
     ELSE {ServicesConfig.custom_services[1][i].name :
              i \in DOMAIN ServicesConfig.custom_services[1]})
    \cup (IF ServicesConfig.applications = None THEN {}
          ELSE {n \o "-autostart" :
                   n \in {m \in DOMAIN ServicesConfig.applications[1] :
                             ServicesConfig.applications[1][m].enabled}})

\* C32: with custom services and applications both declared for the user
\* scope, after a run in which every confirmation resolved to true and no
\* command failed, every declared custom service and every unit of an
\* enabled application is installed and has a record in the custom
\* services state.
C32_DeclaredUserServicesStay ==
    (/\ ServicesRan
     /\ fin.scope = "User"
     /\ ServicesConfig.custom_services # None
     /\ ServicesConfig.applications # None
     /\ ~fout[1].err
     /\ \A j \in DOMAIN fout[1].asked : fout[1].asked[j].answer)
        => \A k \in DeclaredUserServices :
              /\ k \in DOMAIN fout[1].units
              /\ k \in DOMAIN fout[1].file.user_services

\* C33: when the confirmation to install or update a custom service
\* resolves to false, the run issues no applier call for that service: no
\* unit file is written and the unit is not enabled, disabled, started or
\* stopped.
C33_DeclinedInstallIssuesNoCall ==
    (Ran /\ domain = "custom_services") =>
        \A j \in DOMAIN asked :
            (asked[j].prompt = "install_service" /\ ~asked[j].answer) =>
                \A k \in asked[j].keys : ~\E i \in DOMAIN calls : calls[i].key = k

---------------------------------------------------------------------------
(* Claims about the run_once commands.                                     *)

CommandsRan == domain = "commands" /\ fout # None

\* The run_once commands that completed in the run just ended
CompletedOnce ==
    IF fin.config.run_once = None THEN {}
    ELSE {c \in Range(fin.config.run_once[1]) :
             \E i \in DOMAIN fout[1].calls :
                fout[1].calls[i].command = c /\ fout[1].calls[i].ok
                /\ i > Len(fin.config.commands)}

\* The number of times the run executed the command
Executions(st, c) == Cardinality({i \in DOMAIN st.calls : st.calls[i].command = c})

\* C34: run-once commands execute at most once. A run_once command that
\* completed in a run is not executed a second time in that run, and no
\* run that follows executes it, even when a later command of the run
\* failed.
C34_RunOnceAtMostOnce ==
    CommandsRan =>
        \A c \in CompletedOnce \ Range(fin.config.commands) :
            /\ Executions(fout[1], c) = 1
            /\ \A fail \in {NoFail} \cup CommandTexts :
                  Executions(execute_custom_commands(fin.config, fout[1].file, fail), c) = 0

---------------------------------------------------------------------------
(* Claims about the container fingerprint.                                 *)

\* C35: the container fingerprint separates descriptors. A declared
\* descriptor and the descriptor recorded under the same name have equal
\* fingerprints only if they agree on image, on raw_flags (absent: empty),
\* on start_after_creation and on autostart (absent: false).
C35_FingerprintSeparates ==
    Classified =>
        \A d \in WebDescs :
            (/\ "web" \in DOMAIN fin.state
             /\ fin.state["web"] = ContainerInfo(d)
             /\ d.name = fin.container.name
             /\ generate_container_config_hash(fin.container)
                    = generate_container_config_hash(d))
                => Attributes(fin.container) = Attributes(d)

---------------------------------------------------------------------------
(* Claims about the creation of users and groups.                          *)

\* C36: a declared user or group that already exists on the live system is
\* never classified for creation: the run issues no useradd and no groupadd
\* for it, whatever its uid or gid on the live system.
C36_ExistingIsNotCreated ==
    (Ran /\ domain \in UsersGroupsDomains) =>
        \A k \in Declared \cap Live :
            /\ <<k, "Create">> \notin Range(plan)
            /\ ~\E i \in DOMAIN calls :
                    calls[i].key = k /\ calls[i].op \in {"useradd", "groupadd"}

---------------------------------------------------------------------------
(* Claims about the confirmation of the container plan.                    *)

\* The confirmations "Proceed with container operations?" of the run
ProceedPrompts == {j \in DOMAIN asked : asked[j].prompt = "proceed"}

\* The calls manage_containers_smart can issue: podman rm, create and run,
\* and the autostart units with their daemon-reload
ContainerOps == {"rm", "create", "run", "quadlet", "daemon-reload"}

\* C37: when the container plan holds an action other than Skip and
\* "Proceed with container operations?" resolves to false, the run issues
\* no podman rm, create or run after it, generates no autostart unit and
\* leaves the persisted container state as it was; when every action is
\* Skip, or with --yes, the confirmation is not requested.
C37_DeclinedPlanChangesNothing ==
    ContainersRan =>
        /\ \A j \in ProceedPrompts :
              ~asked[j].answer =>
                  /\ Applied(plan) # {}
                  /\ ~\E i \in DOMAIN calls :
                        calls[i].prompts >= j /\ calls[i].op \in ContainerOps
                  /\ container_state_file = pre.file
                  /\ outcome = "cancelled"
        /\ (Applied(plan) = {} \/ args.yes) => ProceedPrompts = {}

\* The operator declined a plan that would have replaced the container of
\* a declared autostart descriptor which exists and has a record.
C37_Witness ==
    /\ ContainersRan
    /\ \E j \in ProceedPrompts : ~asked[j].answer /\ asked[j].blocked
    /\ <<"web", "Update">> \in Range(plan)
    /\ "web" \in DOMAIN pre.file
    /\ \E c \in Range(podman_containers) : c.name = "web" /\ c.autostart = Some(TRUE)
    /\ container_state_file = pre.file
    /\ calls = <<>>

---------------------------------------------------------------------------
(* Claims about the reconciliation of the declared services.               *)

\* The services the run read as declared, and the snapshot it took
DeclaredUnits == unwrap_or(ServicesConfig.services, EmptyMap)

\* The calls the differences between the declared and the current state of
\* a service ask for: enable or disable first, then start or stop
Differences(k) ==
    (IF fin.units[k].enabled = DeclaredUnits[k].enabled THEN <<>>
     ELSE <<IF DeclaredUnits[k].enabled THEN "enable" ELSE "disable">>)
    \o (IF fin.units[k].active = DeclaredUnits[k].started THEN <<>>
        ELSE <<IF DeclaredUnits[k].started THEN "start" ELSE "stop">>)

\* The systemctl calls the run issued for a service, in order
Issued(k) ==
    LET mine == SelectSeq(fout[1].calls, LAMBDA c : c.key = k)
    IN  [i \in DOMAIN mine |-> mine[i].op]

\* The confirmations "Apply these service changes?" that list the service
ChangePrompts(k) ==
    {j \in DOMAIN fout[1].asked :
        fout[1].asked[j].prompt = "apply_service_changes" /\ k \in fout[1].asked[j].keys}

---------------------------------------------------------------------------
(* Claims about the package lists within one run.                          *)

\* The package a declared entry names to its manager.
Denoted(p) == IF package_manager = "flatpak" THEN parse_flatpak_package(p)[2] ELSE p
\* The packages handed to the install commands of the run: dnf takes the
\* requested entries in one command, flatpak one application per command.
PassedToInstall ==
    IF package_manager = "dnf"
    THEN IF \E i \in DOMAIN calls : calls[i].op = "install" THEN Requested ELSE {}
    ELSE {calls[i].key : i \in {j \in DOMAIN calls : calls[j].op = "install"}}
PassedToRemove == {calls[i].key : i \in {j \in DOMAIN calls : calls[j].op = "remove"}}
KeptPackages ==
    UNION {asked[i].keys :
             i \in {j \in DOMAIN asked : asked[j].prompt = "keep" /\ asked[j].answer}}

\* C39: within one run of a package sync, no package is passed both to
\* install and to remove, no package that the declared list names at the
\* start of the run is passed to remove, and a run that ends without a
\* failure leaves in the file exactly the declared entries and the packages
\* the operator chose to keep.
C39_InstallAndRemoveApart ==
    PackagesRan /\ ~flag_conflict(args) =>
        /\ PassedToInstall \cap PassedToRemove = {}
        /\ PassedToRemove \cap {Denoted(p) : p \in DeclaredPackages} = {}
        /\ outcome = "ok" => Range(packages_toml) = DeclaredPackages \cup KeptPackages

====
